---- MODULE Spec2Model ----
(***************************************************************************)
(* senaite.core setup-data import engine                                   *)
(* (src/senaite/core/exportimport/setupdata/__init__.py).                  *)
(*                                                                         *)
(* Text is a sequence of one-character strings, so that strip() and the    *)
(* utf-8 encoding are computed and not assumed.  A cell value is a record  *)
(* [kind, val]: kind is the Python type of cell.value, val the characters  *)
(* of the text (for a number, boolean or date: the characters str() gives).*)
(***************************************************************************)
EXTENDS Integers, Sequences, FiniteSets, TLC

VARIABLES
  worksheet,    \* worksheet.rows: row 1 holds the column names
  startrow,     \* the startrow argument of get_rows
  headers,      \* get_rows: local headers
  row_nr,       \* get_rows: local row_nr
  yielded,      \* the records get_rows has yielded so far, in order
  yielded_nr,   \* for each yielded record, the value of row_nr at its yield
  savepoints,   \* number of transaction.savepoint() calls so far
  rows_pc,      \* "run" while the generator can be resumed, "done" after
  catalog,      \* the objects a catalog has indexed, in result order
  none_key,     \* how the catalog treats a query value of None
  go_args,      \* get_object: the arguments of the last call
  go_result,    \* get_object: the object the last call returned, or NoObject
  go_queries,   \* get_object: the catalog queries the last call issued
  go_log,       \* get_object: the messages the last call logged
  deferred,     \* lsd.deferred
  enqueued,     \* the links passed to defer so far, in call order
  relations,    \* for each object (by uid) the value of its reference field
  run_pc,       \* "import" (first pass), "drain", "done" or "aborted"
  imported,     \* number of worksheet rows the drivers have processed
  last_row,     \* the row the last driver step processed
  drain_pos,    \* the position in lsd.deferred the drain has reached
  drain_log,    \* the outcome of each link drained so far
  warnings,     \* the links reported as unresolved references
  logger,       \* the messages the drivers have logged, in order
  members,      \* the usernames registered with portal_registration
  files,        \* the paths at which the dataset holds a file
  attached,     \* the file fields set so far: [uid, field, data]
  result_options, \* for each object (by uid) the value of ResultOptions
  cur_sheet,    \* the worksheet a driver iterates: [name, rows]
  sheet_pos,    \* the position in cur_sheet.rows of the next row
  rf_path,      \* read_file: the path of the last call
  rf_result,    \* read_file: what the last call returned or raised
  unc_rows,     \* the 'Analysis Service Uncertainties' sheet: [n, layout]
  unc_pos,      \* load_service_uncertainties: the next row
  unc_count,    \* load_service_uncertainties: local count
  unc_bucket,   \* load_service_uncertainties: local bucket
  unc_before,   \* for each service the uncertainties before the pass
  uncertainties, \* for each service (by uid) the value of Uncertainties
  flushes,      \* the write_bucket calls so far: [row, payloads, final]
  unc_pc,       \* "rows", "final" or "done"
  rownum,       \* Lab_Contacts.Import: local rownum
  cur_folder,   \* Sample_Templates.Import: local folder, by uid
  placed,       \* for each object a driver created, the folder it was put in
  spec_bucket,  \* Analysis_Specifications.Import: local bucket
  wst_layouts,  \* Worksheet_Templates: self.wst_layouts
  other_sheet,  \* the second worksheet a driver reads after its loop
  other_pos,    \* the position in other_sheet.rows of the next row
  conv_args,    \* to_int / to_float: the arguments of the last call
  conv_result,  \* to_int / to_float: what the last call returned or raised
  workbook,     \* __call__: the names of the sheets of the workbook
  sheetname,    \* __call__: self.sheetname
  invoked       \* number of times __call__ has invoked self.Import

rows_vars == <<worksheet, startrow, headers, row_nr, yielded, yielded_nr,
               savepoints, rows_pc>>

resolver_vars == <<catalog, none_key, go_args, go_result, go_queries, go_log>>

deferred_vars == <<deferred, enqueued, relations, run_pc, imported, last_row,
                   drain_pos, drain_log, warnings>>

site_vars == <<logger, members, files, attached, result_options, cur_sheet,
               sheet_pos>>

file_vars == <<rf_path, rf_result>>

unc_vars == <<unc_rows, unc_pos, unc_count, unc_bucket, unc_before,
              uncertainties, flushes, unc_pc>>

local_vars == <<rownum, cur_folder, placed, spec_bucket, wst_layouts,
                other_sheet, other_pos>>

conv_vars == <<conv_args, conv_result>>

call_vars == <<workbook, sheetname, invoked>>

vars == <<rows_vars, resolver_vars, deferred_vars, site_vars, file_vars,
          unc_vars, local_vars, conv_vars, call_vars>>

(* the variables get_rows leaves alone *)
rows_frame == <<resolver_vars, deferred_vars, site_vars, file_vars, unc_vars,
                local_vars, conv_vars, call_vars>>

(* the variables get_object leaves alone *)
resolver_frame == <<rows_vars, deferred_vars, site_vars, file_vars, unc_vars,
                    local_vars, conv_vars, call_vars>>

(* the variables every driver and the drain leave alone *)
run_base == <<rows_vars, none_key, go_args, go_result, go_queries, go_log,
              file_vars, unc_vars, conv_vars, call_vars>>

(* the variables the drain, and the drivers without locals, leave alone *)
run_frame == <<run_base, local_vars>>

(* the variables read_file leaves alone *)
file_frame == <<rows_vars, resolver_vars, deferred_vars, logger, members,
                attached, result_options, cur_sheet, sheet_pos,
                unc_vars, local_vars, conv_vars, call_vars>>

(* the variables load_service_uncertainties leaves alone *)
unc_frame == <<rows_vars, none_key, go_args, go_result, go_queries, go_log,
               deferred_vars, members, files, attached, result_options,
               cur_sheet, sheet_pos, file_vars, local_vars, conv_vars,
               call_vars>>

----------------------------------------------------------------------------
(* Bounds *)

MaxRows == 5          \* rows of a small worksheet, header row included
MaxStartRow == 4      \* largest startrow tried on small worksheets
MaxObjects == 3       \* objects indexed by the catalog
MaxImported == 5      \* worksheet rows the drivers process in one run
LongRows == 1002      \* rows of the long worksheet
UncRows == 1200       \* rows of the long uncertainties worksheet
MaxSheetRows == 3     \* data rows of a worksheet a driver iterates

(* transaction.savepoint() is called when row_nr % 1000 == 0 *)
SavepointInterval == 1000

----------------------------------------------------------------------------
(* Cell values *)

Min(a, b) == IF a <= b THEN a ELSE b
Max(a, b) == IF a >= b THEN a ELSE b

None == [kind |-> "none", val |-> <<>>]
Str(s) == [kind |-> "str", val |-> s]
Unicode(s) == [kind |-> "unicode", val |-> s]
Number(s) == [kind |-> "number", val |-> s]
Bool(s) == [kind |-> "bool", val |-> s]
Date(s) == [kind |-> "date", val |-> s]

EmptyStr == Str(<<>>)

T_789Elm == <<"7", "8", "9", " ", "E", "l", "m">>
T_Springfield == <<"S", "p", "r", "i", "n", "g", "f", "i", "e", "l", "d">>

(* value.strip(' \t\n\r') *)
StripChars == {" ", "\t", "\n", "\r"}

RECURSIVE lstrip(_)
lstrip(s) ==
  IF s # <<>> /\ Head(s) \in StripChars THEN lstrip(Tail(s)) ELSE s

RECURSIVE rstrip(_)
rstrip(s) ==
  IF s # <<>> /\ s[Len(s)] \in StripChars
  THEN rstrip(SubSeq(s, 1, Len(s) - 1))
  ELSE s

(* value.lstrip(' \t\n\r') in place of strip *)
strip_left_only(s) == lstrip(s)

strip(s) == rstrip(lstrip(s))

(* value.encode('utf-8'): an ASCII character is one byte, U+00E9 is the two
   bytes C3 A9 *)
utf8_char(c) == IF c = "U+00E9" THEN <<"\\xc3", "\\xa9">> ELSE <<c>>

RECURSIVE encode_utf8(_)
encode_utf8(s) ==
  IF s = <<>> THEN <<>> ELSE utf8_char(Head(s)) \o encode_utf8(Tail(s))

(* str(value) of a normalized value *)
py_str(v) == Str(v.val)

(* get_rows, the body of `for cell in row` *)
normalize_cell(cell) ==
  LET v1 == IF cell.kind = "none" THEN EmptyStr ELSE cell
      v2 == IF v1.kind = "unicode" THEN Str(encode_utf8(v1.val)) ELSE v1
  IN  IF v2.kind = "str" THEN Str(strip(v2.val)) ELSE v2

new_row_of(row) == [i \in 1..Len(row) |-> normalize_cell(row[i])]

(* dict(zip(headers, new_row)): pairs up to the shorter length, a later pair
   replaces an earlier one with the same key *)
dict_zip(hs, vals) ==
  LET n == Min(Len(hs), Len(vals))
  IN  [h \in {hs[i] : i \in 1..n} |->
         vals[CHOOSE i \in 1..n :
                hs[i] = h /\ \A j \in 1..n : hs[j] = h => j <= i]]

(* row.get(name) without the '' default: str(None) is 'None' *)
row_get_no_default(row, name) ==
  IF name \in DOMAIN row THEN row[name] ELSE Str(<<"N", "o", "n", "e">>)

(* row.get(name, '') *)
row_get(row, name) == IF name \in DOMAIN row THEN row[name] ELSE EmptyStr

(* row[key] = value *)
row_set(row, key, value) ==
  [k \in DOMAIN row \cup {key} |-> IF k = key THEN value ELSE row[k]]

AddTypes == <<"Physical", "Postal", "Billing">>
AddressKeys == <<"Address", "City", "State", "District", "Zip", "Country">>

EmptyDict == [k \in {} |-> EmptyStr]

AddressKeySet == {AddressKeys[i] : i \in 1..Len(AddressKeys)}

(* one iteration of `for add_type in [...]`, keeping only the sub-columns the
   sheet has (as get_addresses_from_row does) *)
parse_address_present_only(row, add_type) ==
  LET r0 == row_set(row, add_type, EmptyDict)
  IN  IF (add_type \o "_Address") \in DOMAIN r0
      THEN row_set(r0, add_type,
                   [key \in {k \in AddressKeySet :
                               (add_type \o "_" \o k) \in DOMAIN r0} |->
                      py_str(row_get(r0, add_type \o "_" \o key))])
      ELSE r0

(* one iteration of `for add_type in [...]` *)
parse_address(row, add_type) ==
  LET r0 == row_set(row, add_type, EmptyDict)
  IN  IF (add_type \o "_Address") \in DOMAIN r0
      THEN row_set(r0, add_type,
                   [key \in AddressKeySet |->
                      py_str(row_get(r0, add_type \o "_" \o key))])
      ELSE r0

RECURSIVE parse_addresses(_, _)
parse_addresses(row, types) ==
  IF types = <<>> THEN row
  ELSE parse_addresses(parse_address(row, Head(types)), Tail(types))

(* the record get_rows yields for a data row *)
record_of(hs, row) == parse_addresses(dict_zip(hs, new_row_of(row)), AddTypes)

----------------------------------------------------------------------------
(* Catalog and get_object *)

(* a value passed to or indexed by a catalog: kind is its Python type *)
Val(kind, text) == [kind |-> kind, text |-> text]
NoneVal == Val("none", "")

(* `not title` *)
falsy(v) == v.kind = "none" \/ v.text = ""

(* to_unicode(title): the same text as a unicode object *)
to_unicode(v) == IF v.kind = "str" THEN Val("unicode", v.text) ELSE v

Obj(uid, portal_type, title, keyword, active) ==
  [uid |-> uid, portal_type |-> portal_type, title |-> title,
   getKeyword |-> keyword, is_active |-> active,
   getFullname |-> "", getUsername |-> "", getName |-> ""]

(* the None get_object returns *)
NoObject == Obj(0, "", "", "", "")

(* contentFilter.update(kwargs) *)
dict_update(d, e) ==
  [k \in DOMAIN d \cup DOMAIN e |-> IF k \in DOMAIN e THEN e[k] ELSE d[k]]

(* what a catalog does with a query value of None is not decided by this
   code: the index matches nothing, or it is left out of the query *)
NoneKeyChoices == {"nothing", "unrestricted"}

(* an index restricts the result to the objects whose indexed value has the
   text of the query value *)
index_match(obj, name, v) ==
  IF v.kind = "none" THEN none_key # "nothing" ELSE obj[name] = v.text

(* catalog(contentFilter): the matching objects in catalog order *)
catalog_query(cat, filter) ==
  SelectSeq(cat, LAMBDA o : \A name \in DOMAIN filter :
                              index_match(o, name, filter[name]))

(* `if portal_type == 'AnalysisService'`, without the test *)
retry_any_kind(portal_type) == TRUE

(* `if portal_type == 'AnalysisService'` *)
retry_kind(portal_type) == portal_type = "AnalysisService"

Returned(obj, queries, log) == [obj |-> obj, queries |-> queries, log |-> log]

(* get_object(self, catalog, portal_type, title=None, **kwargs) *)
get_object(cat, portal_type, title, kwargs) ==
  IF falsy(title) /\ DOMAIN kwargs = {}
  THEN Returned(NoObject, <<>>, <<>>)
  ELSE
    LET cf0 == [portal_type |-> Val("str", portal_type)]
        cf1 == IF ~falsy(title)
               THEN dict_update(cf0, [title |-> to_unicode(title)])
               ELSE cf0
        contentFilter == dict_update(cf1, kwargs)
        brains == catalog_query(cat, contentFilter)
    IN  IF Len(brains) > 1
        THEN Returned(NoObject, <<contentFilter>>, <<"More than one">>)
        ELSE IF Len(brains) = 0
        THEN IF retry_kind(portal_type)
             THEN LET byKeyword == [portal_type |-> Val("str", portal_type),
                                    getKeyword |-> title]
                      brains2 == catalog_query(cat, byKeyword)
                  IN  IF brains2 # <<>>
                      THEN Returned(brains2[1], <<contentFilter, byKeyword>>,
                                    <<>>)
                      ELSE Returned(NoObject, <<contentFilter, byKeyword>>,
                                    <<"No objects found">>)
             ELSE Returned(NoObject, <<contentFilter>>,
                           <<"No objects found">>)
        ELSE Returned(brains[1], <<contentFilter>>, <<>>)

(* the kinds of object the catalog may hold: portal_type, title, keyword,
   is_active *)
ObjectPool ==
  { <<"AnalysisService", "Calcium", "Ca", "True">>,
    <<"AnalysisService", "Ca", "Mg", "True">>,
    <<"AnalysisService", "Magnesium", "Ca", "False">>,
    <<"Department", "Ca", "", "True">> }

Catalogs ==
  UNION { { [i \in 1..n |-> Obj(i, c[i][1], c[i][2], c[i][3], c[i][4])] :
              c \in [1..n -> ObjectPool] } : n \in 0..MaxObjects }

PortalTypes == {"AnalysisService", "Department"}

Titles == {NoneVal, Val("str", "Ca"), Val("str", "Calcium"), Val("str", "Mg")}

ExtraFilters ==
  { [k \in {} |-> NoneVal],
    [is_active |-> Val("bool", "True")],
    [getKeyword |-> Val("str", "Mg")] }

NoArgs == [portal_type |-> "", title |-> NoneVal, kwargs |-> [k \in {} |-> NoneVal]]

resolver_Idle ==
  /\ catalog = <<>>
  /\ none_key = "nothing"
  /\ go_args = NoArgs
  /\ go_result = NoObject
  /\ go_queries = <<>>
  /\ go_log = <<>>

deferred_Idle ==
  /\ deferred = <<>>
  /\ enqueued = <<>>
  /\ relations = <<>>
  /\ run_pc = "done"
  /\ imported = 0
  /\ last_row = [sheet |-> ""]
  /\ drain_pos = 0
  /\ drain_log = <<>>
  /\ warnings = <<>>

rows_Idle ==
  /\ worksheet = <<>>
  /\ startrow = 3
  /\ headers = <<>>
  /\ row_nr = 0
  /\ yielded = <<>>
  /\ yielded_nr = <<>>
  /\ savepoints = 0
  /\ rows_pc = "done"

NoSheet == [name |-> "", rows |-> <<>>]

site_Idle ==
  /\ logger = <<>>
  /\ members = {}
  /\ files = {}
  /\ attached = {}
  /\ result_options = <<>>
  /\ cur_sheet = NoSheet
  /\ sheet_pos = 0

NoCall == [raised |-> "", data |-> ""]

file_Idle ==
  /\ rf_path = ""
  /\ rf_result = NoCall

unc_Idle ==
  /\ unc_rows = [n |-> 0, layout |-> "none"]
  /\ unc_pos = 0
  /\ unc_count = 0
  /\ unc_bucket = <<>>
  /\ unc_before = <<>>
  /\ uncertainties = <<>>
  /\ flushes = <<>>
  /\ unc_pc = "done"

(* the locals of the drivers as they are when Import is entered *)
local_Init ==
  /\ rownum = 2
  /\ cur_folder = 0
  /\ placed = <<>>
  /\ spec_bucket = <<>>
  /\ wst_layouts = <<>>
  /\ other_pos = 0

local_Idle ==
  /\ local_Init
  /\ other_sheet = NoSheet

conv_Idle ==
  /\ conv_args = [fn |-> "", value |-> "", default |-> ""]
  /\ conv_result = NoCall

call_Idle ==
  /\ workbook = {}
  /\ sheetname = ""
  /\ invoked = 0

resolver_Init ==
  /\ catalog \in Catalogs
  /\ none_key \in NoneKeyChoices
  /\ go_args = NoArgs
  /\ go_result = NoObject
  /\ go_queries = <<>>
  /\ go_log = <<>>
  /\ rows_Idle
  /\ deferred_Idle
  /\ site_Idle
  /\ file_Idle
  /\ unc_Idle
  /\ local_Idle
  /\ conv_Idle
  /\ call_Idle

(* one call of get_object *)
get_object_call ==
  \E portal_type \in PortalTypes, title \in Titles, kwargs \in ExtraFilters :
    LET r == get_object(catalog, portal_type, title, kwargs)
    IN  /\ go_args' = [portal_type |-> portal_type, title |-> title,
                       kwargs |-> kwargs]
        /\ go_result' = r.obj
        /\ go_queries' = r.queries
        /\ go_log' = r.log
        /\ UNCHANGED <<catalog, none_key>>
        /\ UNCHANGED resolver_frame

resolver_Next == get_object_call

SpecResolver == resolver_Init /\ [][resolver_Next]_vars

----------------------------------------------------------------------------
(* Worksheets *)

HeaderPool ==
  { <<"title", "Physical_Address", "Physical_City">>,
    <<"title", "title", "description">>,
    <<"Physical", "Postal_City", "Billing_Address">>,
    <<"Physical_Address", "Physical_City", "Physical_Zip">> }

RowPool ==
  { <<Str(<<" ", "a", " ">>), Str(T_789Elm), Str(T_Springfield)>>,
    <<None, Unicode(<<"\t", "U+00E9", " ", "b", "\n">>), Number(<<"7">>)>>,
    <<Bool(<<"T", "r", "u", "e">>), Date(<<"2", "0", "2", "4">>),
      Str(<<"\r", " ">>)>>,
    <<Unicode(<<"a", " ", "b">>), None, None>> }

DataRows(n) == UNION {[1..k -> RowPool] : k \in 0..n}

(* get_rows(self, startrow=3, worksheet=None) on a small worksheet *)
rows_Init ==
  /\ \/ worksheet = <<>>
     \/ \E h \in HeaderPool, d \in DataRows(MaxRows - 1) :
          worksheet = <<h>> \o d
  /\ startrow \in 0..MaxStartRow
  /\ headers = <<>>
  /\ row_nr = 0
  /\ yielded = <<>>
  /\ yielded_nr = <<>>
  /\ savepoints = 0
  /\ rows_pc = "run"
  /\ resolver_Idle
  /\ deferred_Idle
  /\ site_Idle
  /\ file_Idle
  /\ unc_Idle
  /\ local_Idle
  /\ conv_Idle
  /\ call_Idle

(* get_rows on a long worksheet of identical one-column rows *)
LongSheet ==
  [i \in 1..LongRows |->
     IF i = 1 THEN <<"title">> ELSE <<Str(<<"a", " ">>)>>]

long_Init ==
  /\ worksheet = LongSheet
  /\ startrow \in (0..MaxStartRow)
                  \cup {SavepointInterval - 1, SavepointInterval,
                        SavepointInterval + 1}
  /\ headers = <<>>
  /\ row_nr = 0
  /\ yielded = <<>>
  /\ yielded_nr = <<>>
  /\ savepoints = 0
  /\ rows_pc = "run"
  /\ resolver_Idle
  /\ deferred_Idle
  /\ site_Idle
  /\ file_Idle
  /\ unc_Idle
  /\ local_Idle
  /\ conv_Idle
  /\ call_Idle

(* `if row_nr % 1000 == 0: transaction.savepoint()`, off by one *)
savepoint_at_after(nr) == IF (nr - 1) % SavepointInterval = 0 THEN 1 ELSE 0

(* `if row_nr % 1000 == 0: transaction.savepoint()` *)
savepoint_at(nr) == IF nr % SavepointInterval = 0 THEN 1 ELSE 0

(* `if row_nr <= startrow: continue`, written with < *)
skip_row_strict(nr, start) == nr < start

(* `if row_nr <= startrow: continue` *)
skip_row(nr, start) == nr <= start

(* the iteration for row 1: the headers are captured *)
get_rows_header ==
  /\ rows_pc = "run"
  /\ row_nr < Len(worksheet)
  /\ row_nr + 1 = 1
  /\ row_nr' = row_nr + 1
  /\ headers' = worksheet[row_nr + 1]
  /\ UNCHANGED <<worksheet, startrow, yielded, yielded_nr, savepoints, rows_pc>>
  /\ UNCHANGED rows_frame

(* an iteration that ends at `if row_nr <= startrow: continue` *)
get_rows_skip ==
  /\ rows_pc = "run"
  /\ row_nr < Len(worksheet)
  /\ row_nr + 1 # 1
  /\ skip_row(row_nr + 1, startrow)
  /\ row_nr' = row_nr + 1
  /\ savepoints' = savepoints + savepoint_at(row_nr + 1)
  /\ UNCHANGED <<worksheet, startrow, headers, yielded, yielded_nr, rows_pc>>
  /\ UNCHANGED rows_frame

(* an iteration that reaches `yield row` *)
get_rows_yield ==
  /\ rows_pc = "run"
  /\ row_nr < Len(worksheet)
  /\ row_nr + 1 # 1
  /\ ~skip_row(row_nr + 1, startrow)
  /\ row_nr' = row_nr + 1
  /\ savepoints' = savepoints + savepoint_at(row_nr + 1)
  /\ yielded' = Append(yielded, record_of(headers, worksheet[row_nr + 1]))
  /\ yielded_nr' = Append(yielded_nr, row_nr + 1)
  /\ UNCHANGED <<worksheet, startrow, headers, rows_pc>>
  /\ UNCHANGED rows_frame

(* worksheet.rows is exhausted: the generator returns *)
get_rows_stop ==
  /\ rows_pc = "run"
  /\ row_nr = Len(worksheet)
  /\ rows_pc' = "done"
  /\ UNCHANGED <<worksheet, startrow, headers, row_nr, yielded, yielded_nr,
                 savepoints>>
  /\ UNCHANGED rows_frame

rows_Next ==
  \/ get_rows_header
  \/ get_rows_skip
  \/ get_rows_yield
  \/ get_rows_stop

SpecRows == rows_Init /\ [][rows_Next]_vars

SpecLong == long_Init /\ [][rows_Next]_vars

----------------------------------------------------------------------------
(* read_file *)

(* the text made of the tokens *)
RECURSIVE join(_)
join(s) == IF s = <<>> THEN "" ELSE Head(s) \o join(Tail(s))

LowerCase == <<"a", "b", "c", "d", "e", "f", "g", "h", "i", "j", "k", "l", "m",
               "n", "o", "p", "q", "r", "s", "t", "u", "v", "w", "x", "y", "z">>
UpperCase == <<"A", "B", "C", "D", "E", "F", "G", "H", "I", "J", "K", "L", "M",
               "N", "O", "P", "Q", "R", "S", "T", "U", "V", "W", "X", "Y", "Z">>

(* e.upper(), e a sequence of characters *)
upper(e) ==
  [i \in 1..Len(e) |->
     IF \E k \in 1..Len(LowerCase) : LowerCase[k] = e[i]
     THEN UpperCase[CHOOSE k \in 1..Len(LowerCase) : LowerCase[k] = e[i]]
     ELSE e[i]]

(* allowed_ext = ['pdf', 'jpg', ...] *)
allowed_ext ==
  << <<"p", "d", "f">>, <<"j", "p", "g">>, <<"j", "p", "e", "g">>,
     <<"p", "n", "g">>, <<"g", "i", "f">>, <<"o", "d", "s">>,
     <<"o", "d", "t">>, <<"x", "l", "s", "x">>, <<"d", "o", "c">>,
     <<"d", "o", "c", "x">>, <<"x", "l", "s">>, <<"c", "s", "v">>,
     <<"t", "x", "t">> >>

(* the upper-cased extensions placed before the lower-cased ones *)
all_ext_upper_first ==
  [i \in 1..Len(allowed_ext) |-> upper(allowed_ext[i])] \o allowed_ext

(* allowed_ext += [e.upper() for e in allowed_ext] *)
all_ext == allowed_ext \o [i \in 1..Len(allowed_ext) |-> upper(allowed_ext[i])]

(* '%s.%s' % (path, e) *)
candidate(path, e) == path \o "." \o join(e)

(* os.path.isfile(path) *)
isfile(fs, path) == path \in fs

(* open(path, "rb").read(): the contents are named after the file *)
Contents(path) == [raised |-> "", data |-> path]

(* raise IOError("File not found: ...") *)
Raise(exception) == [raised |-> exception, data |-> ""]

(* read_file ending with `return None` in place of the raise *)
read_file_returns_none(fs, path) ==
  IF isfile(fs, path) THEN Contents(path)
  ELSE LET found == {i \in 1..Len(all_ext) : isfile(fs, candidate(path, all_ext[i]))}
       IN  IF found # {}
           THEN Contents(candidate(path,
                  all_ext[CHOOSE i \in found : \A j \in found : i <= j]))
           ELSE [raised |-> "", data |-> ""]

(* read_file(path) *)
read_file(fs, path) ==
  IF isfile(fs, path) THEN Contents(path)
  ELSE LET found == {i \in 1..Len(all_ext) : isfile(fs, candidate(path, all_ext[i]))}
       IN  IF found # {}
           THEN Contents(candidate(path,
                  all_ext[CHOOSE i \in found : \A j \in found : i <= j]))
           ELSE Raise("IOError")

(* the paths a dataset may hold a file at *)
PathPool == {"cert", "cert.pdf", "cert.PDF", "cert.jpg", "cert.TXT",
             "cert.Pdf", "logo.png", "logo"}

(* the paths read_file is called with *)
CallPaths == {"cert", "logo", "cert.pdf", "manual"}

file_Init ==
  /\ files \in SUBSET PathPool
  /\ rf_path = ""
  /\ rf_result = NoCall
  /\ logger = <<>>
  /\ members = {}
  /\ attached = {}
  /\ result_options = <<>>
  /\ cur_sheet = NoSheet
  /\ sheet_pos = 0
  /\ rows_Idle
  /\ resolver_Idle
  /\ deferred_Idle
  /\ unc_Idle
  /\ local_Idle
  /\ conv_Idle
  /\ call_Idle

(* a caller calls read_file(path) *)
read_file_call ==
  \E path \in CallPaths :
    /\ rf_path' = path
    /\ rf_result' = read_file(files, path)
    /\ UNCHANGED files
    /\ UNCHANGED file_frame

file_Next == read_file_call

SpecFiles == file_Init /\ [][file_Next]_vars

----------------------------------------------------------------------------
(* Deferred links: defer, the drivers that call it, and the drain *)

(* self.lsd.deferred = [kwargs] in place of append *)
defer_replace(list, kwargs) == <<kwargs>>

(* self.lsd.deferred.insert(0, kwargs) in place of append *)
defer_at_head(list, kwargs) == <<kwargs>> \o list

(* self.lsd.deferred.pop(0) before the append *)
defer_drop_oldest(list, kwargs) ==
  IF list = <<>> THEN <<kwargs>> ELSE Append(Tail(list), kwargs)

(* defer(self, **kwargs): self.lsd.deferred.append(kwargs) *)
defer(list, kwargs) == Append(list, kwargs)

(* consecutive defer calls, one per link *)
RECURSIVE defer_each(_, _)
defer_each(list, links) ==
  IF links = <<>> THEN list
  ELSE defer_each(defer(list, Head(links)), Tail(links))

Link(src_obj, src_field, dest_catalog, dest_query) ==
  [src_obj |-> src_obj, src_field |-> src_field,
   dest_catalog |-> dest_catalog, dest_query |-> dest_query]

(* a cell of names is a sequence of tokens: words, " " and "," *)
(* s.split(",") *)
RECURSIVE split_comma(_)
split_comma(s) ==
  LET commas == {i \in 1..Len(s) : s[i] = ","}
  IN  IF commas = {} THEN <<s>>
      ELSE LET p == CHOOSE i \in commas : \A j \in commas : i <= j
           IN  <<SubSeq(s, 1, p - 1)>>
                 \o split_comma(SubSeq(s, p + 1, Len(s)))

(* [x.strip() for x in row['CCContacts'].split(",")] *)
cc_names(cell) ==
  LET parts == split_comma(cell)
  IN  [i \in 1..Len(parts) |-> join(strip(parts[i]))]

(* _createObjectByType / api.create: the new object gets the next uid and is
   indexed *)
create_object(cat, obj) == Append(cat, [obj EXCEPT !.uid = Len(cat) + 1])

LabContactRows ==
  { [Firstname |-> "Ann", Surname |-> "Low", Username |-> "ann",
     Department_title |-> "Chem", EmailAddress |-> "ann@lab", Password |-> "",
     Groups |-> "LabManagers"],
    [Firstname |-> "Bob", Surname |-> "", Username |-> "",
     Department_title |-> "Micro", EmailAddress |-> "", Password |-> "",
     Groups |-> ""],
    [Firstname |-> "", Surname |-> "Doe", Username |-> "doe",
     Department_title |-> "Chem", EmailAddress |-> "doe@lab",
     Password |-> "pw", Groups |-> ""],
    [Firstname |-> "Cy", Surname |-> "Low", Username |-> "ann",
     Department_title |-> "Chem", EmailAddress |-> "cy@lab",
     Password |-> "pw", Groups |-> ""] }

DepartmentRows == { [title |-> "Chem"], [title |-> ""] }

ClientRows ==
  { [Name |-> "Acme", ClientID |-> "AC"], [Name |-> "", ClientID |-> "X"] }

ClientContactRows ==
  { [Client_title |-> "Acme", Firstname |-> "Dan", Surname |-> "Lee",
     CCContacts |-> <<"Eve", " ", "Ray", ",", " ", "Dan", " ", "Lee">>],
    [Client_title |-> "Acme", Firstname |-> "Eve", Surname |-> "Ray",
     CCContacts |-> <<>>],
    [Client_title |-> "Acme", Firstname |-> "Flo", Surname |-> "Kim",
     CCContacts |-> <<"Zed", ",", "Eve", " ", "Ray", ",">>],
    [Client_title |-> "Nope", Firstname |-> "Gus", Surname |-> "Orr",
     CCContacts |-> <<"Eve", " ", "Ray">>] }

run_Init ==
  /\ catalog = <<>>
  /\ none_key = "nothing"
  /\ go_args = NoArgs
  /\ go_result = NoObject
  /\ go_queries = <<>>
  /\ go_log = <<>>
  /\ deferred = <<>>
  /\ enqueued = <<>>
  /\ relations = <<>>
  /\ run_pc = "import"
  /\ imported = 0
  /\ last_row = [sheet |-> ""]
  /\ drain_pos = 0
  /\ drain_log = <<>>
  /\ warnings = <<>>
  /\ rows_Idle
  /\ site_Idle
  /\ file_Idle
  /\ unc_Idle
  /\ local_Idle
  /\ conv_Idle
  /\ call_Idle

(* a driver processes one more row *)
next_row(sheet, row) ==
  /\ run_pc = "import"
  /\ imported < MaxImported
  /\ imported' = imported + 1
  /\ last_row' = [sheet |-> sheet, row |-> row]

(* logger.warning / logger.error / logger.info *)
Logged(level, text, about) == [level |-> level, text |-> text, about |-> about]

(* a message that names a row: "... for user '{0}' in row {1} ..." *)
LoggedRow(level, text, about, row) ==
  [level |-> level, text |-> text, about |-> about, row |-> row]

(* the username test comparing with the Firstname of the contacts *)
username_exists_by_firstname(cat, username) ==
  { i \in 1..Len(cat) :
      /\ cat[i].portal_type = "LabContact"
      /\ cat[i].getFullname = username }

(* exists = [o.getObject() for o in bsc(portal_type="LabContact")
             if o.getObject().getUsername() == username] *)
username_exists(cat, username) ==
  { i \in 1..Len(cat) :
      /\ cat[i].portal_type = "LabContact"
      /\ cat[i].getUsername = username }

(* Lab_Contacts.Import: the body of the loop for one row; the pass over the
   'Lab Departments' sheet that follows the loop is Lab_Contacts_managers *)
Lab_Contacts_Import_row(row) ==
  LET fullname == join(strip(SelectSeq(<<row.Firstname, " ", row.Surname>>,
                                       LAMBDA t : t # "")))
      username == row.Username
      exists == username_exists(catalog, username)
      nr == rownum + 1
      obj == [Obj(0, "LabContact", fullname, "", "True")
                EXCEPT !.getFullname = fullname,
                       !.getUsername = row.Username]
      links == IF row.Department_title # ""
               THEN <<Link(Len(catalog) + 1, "Department",
                           "SETUP_CATALOG",
                           [portal_type |-> Val("str", "Department"),
                            title |-> Val("str", row.Department_title)])>>
               ELSE <<>>
      no_username == IF row.Username = ""
                     THEN <<LoggedRow("warning", "No username defined",
                                     fullname, nr)>>
                     ELSE <<>>
      no_email == IF row.EmailAddress = ""
                  THEN <<LoggedRow("warning", "No Email defined",
                                  fullname, nr)>>
                  ELSE <<>>
      register == row.Username # "" /\ row.EmailAddress # ""
      no_password == IF row.Password = ""
                     THEN <<LoggedRow("warning", "No password defined",
                                     username, nr)>>
                     ELSE <<>>
      refused == username \in members
      no_groups == IF row.Groups = ""
                   THEN <<LoggedRow("warning", "No groups defined",
                                   username, nr)>>
                   ELSE <<>>
  IN  /\ rownum' = nr
      /\ IF row.Firstname = ""
         THEN UNCHANGED <<catalog, relations, deferred, enqueued, logger, members>>
         ELSE IF username # "" /\ exists # {}
         THEN /\ logger' = Append(logger,
                             LoggedRow("error", "username already exists",
                                       username, nr))
              /\ UNCHANGED <<catalog, relations, deferred, enqueued, members>>
         ELSE /\ catalog' = create_object(catalog, obj)
              /\ relations' = Append(relations, <<>>)
              /\ deferred' = defer_each(deferred, links)
              /\ enqueued' = enqueued \o links
              /\ logger' =
                   logger \o no_username \o no_email \o
                     (IF ~register THEN <<>>
                      ELSE no_password \o
                             (IF refused
                              THEN <<Logged("error", "Error adding user", username)>>
                              ELSE no_groups))
              /\ members' = IF register /\ ~refused
                            THEN members \cup {username} ELSE members

Lab_Contacts_row ==
  \E row \in LabContactRows :
    /\ next_row("Lab Contacts", row)
    /\ Lab_Contacts_Import_row(row)
    /\ UNCHANGED <<run_pc, drain_pos, drain_log, warnings, files, attached,
                   result_options, cur_sheet, sheet_pos>>
    /\ UNCHANGED <<cur_folder, placed, spec_bucket, wst_layouts, other_sheet,
                   other_pos>>
    /\ UNCHANGED run_base

(* Lab_Departments.Import: the body of the loop for one row *)
Lab_Departments_row ==
  \E row \in DepartmentRows :
    /\ next_row("Lab Departments", row)
    /\ IF row.title = ""
       THEN UNCHANGED <<catalog, relations>>
       ELSE /\ catalog' = create_object(catalog,
                            Obj(0, "Department", row.title, "", "True"))
            /\ relations' = Append(relations, <<>>)
    /\ UNCHANGED <<deferred, enqueued, run_pc, drain_pos, drain_log, warnings>>
    /\ UNCHANGED site_vars
    /\ UNCHANGED run_frame

(* the exception handled like the IOError that __call__ catches: the run
   goes on *)
raise_caught(pc) == pc

(* raise Exception(...) inside Import: __call__ catches IOError only, so the
   exception leaves the importer and ends the run *)
raise_Exception(pc) == "aborted"

(* Clients.Import: the body of the loop for one row; the object is created
   before the required fields are tested, and the exception ends the run *)
Clients_Import_row(row) ==
  /\ catalog' = create_object(catalog,
                  IF row.Name = "" \/ row.ClientID = ""
                  THEN Obj(0, "Client", "", "", "True")
                  ELSE [Obj(0, "Client", row.Name, "", "True")
                          EXCEPT !.getName = row.Name])
  /\ relations' = Append(relations, <<>>)
  /\ run_pc' = IF row.Name = "" \/ row.ClientID = ""
               THEN raise_Exception(run_pc) ELSE run_pc

Clients_row ==
  \E row \in ClientRows :
    /\ next_row("Clients", row)
    /\ Clients_Import_row(row)
    /\ UNCHANGED <<deferred, enqueued, drain_pos, drain_log, warnings>>
    /\ UNCHANGED site_vars
    /\ UNCHANGED run_frame

(* Client_Contacts.Import: the body of the loop for one row *)
Client_Contacts_Import_row(row) ==
  LET client == catalog_query(catalog,
                  [portal_type |-> Val("str", "Client"),
                   getName |-> Val("str", row.Client_title)])
      fullname == row.Firstname \o " " \o row.Surname
      contact == [Obj(0, "Contact", fullname, "", "True")
                    EXCEPT !.getFullname = fullname]
      names == IF row.CCContacts # <<>>
               THEN cc_names(row.CCContacts) ELSE <<>>
      links == [i \in 1..Len(names) |->
                  Link(Len(catalog) + 1, "CCContact", "CONTACT_CATALOG",
                       [portal_type |-> Val("str", "Contact"),
                        getFullname |-> Val("str", names[i])])]
  IN  IF Len(client) = 0
      THEN /\ logger' = Append(logger,
                          Logged("error", "Client invalid", row.Client_title))
           /\ UNCHANGED <<catalog, relations, deferred, enqueued>>
      ELSE /\ catalog' = create_object(catalog, contact)
           /\ relations' = Append(relations, <<>>)
           /\ deferred' = defer_each(deferred, links)
           /\ enqueued' = enqueued \o links
           /\ UNCHANGED logger

Client_Contacts_row ==
  \E row \in ClientContactRows :
    /\ next_row("Client Contacts", row)
    /\ Client_Contacts_Import_row(row)
    /\ UNCHANGED <<run_pc, drain_pos, drain_log, warnings, members, files,
                   attached, result_options, cur_sheet, sheet_pos>>
    /\ UNCHANGED run_frame

(* the relations that hold several targets *)
multiValued(src_field) == src_field \in {"CCContact", "DependentServices"}

(* the Entity Resolver applied to the criteria of a link *)
resolve_link(cat, link) ==
  LET q == link.dest_query
      title == IF "title" \in DOMAIN q THEN q.title ELSE NoneVal
      kwargs == [k \in DOMAIN q \ {"portal_type", "title"} |-> q[k]]
  IN  get_object(cat, q.portal_type.text, title, kwargs).obj

(* the engine starts the drain once every driver has finished *)
solve_deferred_begin ==
  /\ run_pc = "import"
  /\ sheet_pos = Len(cur_sheet.rows)
  /\ other_pos = Len(other_sheet.rows)
  /\ \A i \in 1..Len(spec_bucket) : spec_bucket[i].obj # 0
  /\ run_pc' = "drain"
  /\ drain_pos' = 1
  /\ UNCHANGED <<catalog, deferred, enqueued, relations, imported, last_row,
                 drain_log, warnings>>
  /\ UNCHANGED site_vars
  /\ UNCHANGED run_frame

(* the drain handles the next link: bind it or report it *)
solve_deferred_link ==
  /\ run_pc = "drain"
  /\ drain_pos <= Len(deferred)
  /\ LET link == deferred[drain_pos]
         target == resolve_link(catalog, link)
     IN  IF target # NoObject
         THEN /\ relations' =
                   [relations EXCEPT ![link.src_obj] =
                      IF multiValued(link.src_field)
                      THEN Append(@, target.uid)
                      ELSE <<target.uid>>]
              /\ drain_log' = Append(drain_log,
                                [link |-> link, outcome |-> "bound",
                                 target |-> target.uid])
              /\ UNCHANGED warnings
         ELSE /\ warnings' = Append(warnings, link)
              /\ drain_log' = Append(drain_log,
                                [link |-> link, outcome |-> "unresolved",
                                 target |-> 0])
              /\ UNCHANGED relations
  /\ drain_pos' = drain_pos + 1
  /\ UNCHANGED <<catalog, deferred, enqueued, run_pc, imported, last_row>>
  /\ UNCHANGED site_vars
  /\ UNCHANGED run_frame

(* the drain has handled every link *)
solve_deferred_end ==
  /\ run_pc = "drain"
  /\ drain_pos > Len(deferred)
  /\ run_pc' = "done"
  /\ UNCHANGED <<catalog, deferred, enqueued, relations, imported, last_row,
                 drain_pos, drain_log, warnings>>
  /\ UNCHANGED site_vars
  /\ UNCHANGED run_frame

run_Next ==
  \/ Lab_Contacts_row
  \/ Lab_Departments_row
  \/ Clients_row
  \/ Client_Contacts_row
  \/ solve_deferred_begin
  \/ solve_deferred_link
  \/ solve_deferred_end

SpecRun == run_Init /\ [][run_Next]_vars

----------------------------------------------------------------------------
(* to_int and to_float *)

DigitChars == <<"0", "1", "2", "3", "4", "5", "6", "7", "8", "9">>

is_digit(c) == \E d \in 1..10 : DigitChars[d] = c

digit_value(c) == (CHOOSE d \in 1..10 : DigitChars[d] = c) - 1

all_digits(s) == \A i \in 1..Len(s) : is_digit(s[i])

(* the number a sequence of decimal digits writes *)
RECURSIVE nat_of(_)
nat_of(s) ==
  IF s = <<>> THEN 0
  ELSE nat_of(SubSeq(s, 1, Len(s) - 1)) * 10 + digit_value(s[Len(s)])

RECURSIVE pow10(_)
pow10(n) == IF n = 0 THEN 1 ELSE 10 * pow10(n - 1)

(* a float: num / 10^scale, without trailing zeros in the fraction *)
RECURSIVE Float(_, _)
Float(num, scale) ==
  IF scale > 0 /\ num % 10 = 0 THEN Float(num \div 10, scale - 1)
  ELSE [num |-> num, scale |-> scale]

(* what a conversion returned, or the exception it raised *)
Returns(x) == [raised |-> "", data |-> x]
Raises(e) == [raised |-> e, data |-> ""]

has_sign(s) == s # <<>> /\ Head(s) \in {"+", "-"}
sign_of(s) == IF s # <<>> /\ Head(s) = "-" THEN -1 ELSE 1
unsigned(s) == IF has_sign(s) THEN Tail(s) ELSE s

(* float(text): surrounding whitespace, an optional sign, digits with an
   optional decimal point; the texts tried hold no exponent, nan or inf *)
float_of_text(chars) ==
  LET t == strip(chars)
      body == unsigned(t)
      dots == { i \in 1..Len(body) : body[i] = "." }
      dot == IF dots = {} THEN Len(body) + 1
             ELSE CHOOSE i \in dots : \A j \in dots : i <= j
      whole == SubSeq(body, 1, dot - 1)
      frac == SubSeq(body, dot + 1, Len(body))
  IN  IF /\ all_digits(whole)
         /\ all_digits(frac)
         /\ Len(whole) + Len(frac) > 0
      THEN Returns(Float(sign_of(t) * nat_of(whole \o frac), Len(frac)))
      ELSE Raises("ValueError")

(* int(text): surrounding whitespace, an optional sign and decimal digits *)
int_of_text(chars) ==
  LET t == strip(chars)
      body == unsigned(t)
  IN  IF body # <<>> /\ all_digits(body)
      THEN Returns(sign_of(t) * nat_of(body))
      ELSE Raises("ValueError")

(* int(x) of a float: the fraction is dropped, towards zero *)
truncate(f) ==
  IF f.num >= 0 THEN f.num \div pow10(f.scale)
  ELSE -((-f.num) \div pow10(f.scale))

(* float(value) *)
py_float(v) ==
  CASE v.kind \in {"str", "unicode"} -> float_of_text(v.val)
    [] v.kind = "number" -> float_of_text(v.val)
    [] v.kind = "bool" ->
         Returns(Float(IF v.val = <<"T", "r", "u", "e">> THEN 1 ELSE 0, 0))
    [] OTHER -> Raises("TypeError")

(* int(value) *)
py_int(v) ==
  CASE v.kind \in {"str", "unicode"} -> int_of_text(v.val)
    [] v.kind = "number" -> Returns(truncate(float_of_text(v.val).data))
    [] v.kind = "bool" ->
         Returns(IF v.val = <<"T", "r", "u", "e">> THEN 1 ELSE 0)
    [] OTHER -> Raises("TypeError")

(* try: return int(value)
   except ValueError:
       try: return int(default)
       except Exception: return 0 *)
to_int(value, default) ==
  LET r == py_int(value)
      d == py_int(default)
  IN  IF r.raised = "" THEN r
      ELSE IF r.raised = "ValueError"
      THEN IF d.raised = "" THEN d ELSE Returns(0)
      ELSE r

(* the same with float, and 0.0 as the last resort *)
to_float(value, default) ==
  LET r == py_float(value)
      d == py_float(default)
  IN  IF r.raised = "" THEN r
      ELSE IF r.raised = "ValueError"
      THEN IF d.raised = "" THEN d ELSE Returns(Float(0, 0))
      ELSE r

(* cell values of every kind, as get_rows hands them over or as a caller
   passes them for the default *)
ConvValues ==
  { None,
    Str(<<>>),
    Str(<<"4", "2">>),
    Str(<<" ", "-", "7", " ">>),
    Str(<<"3", ".", "5">>),
    Str(<<"a", "b", "c">>),
    Unicode(<<"1", "0">>),
    Number(<<"0">>),
    Number(<<"7">>),
    Number(<<"-", "2", ".", "5">>),
    Bool(<<"T", "r", "u", "e">>),
    Bool(<<"F", "a", "l", "s", "e">>),
    Date(<<"2", "0", "2", "4">>) }

conv_Init ==
  /\ conv_Idle
  /\ rows_Idle
  /\ resolver_Idle
  /\ deferred_Idle
  /\ site_Idle
  /\ file_Idle
  /\ unc_Idle
  /\ local_Idle
  /\ call_Idle

conv_frame == <<rows_vars, resolver_vars, deferred_vars, site_vars, file_vars,
                unc_vars, local_vars, call_vars>>

(* a driver calls self.to_int(value, default) *)
to_int_call ==
  \E value \in ConvValues, default \in ConvValues :
    /\ conv_args' = [fn |-> "to_int", value |-> value, default |-> default]
    /\ conv_result' = to_int(value, default)
    /\ UNCHANGED conv_frame

(* a driver calls self.to_float(value, default) *)
to_float_call ==
  \E value \in ConvValues, default \in ConvValues :
    /\ conv_args' = [fn |-> "to_float", value |-> value, default |-> default]
    /\ conv_result' = to_float(value, default)
    /\ UNCHANGED conv_frame

conv_Next ==
  \/ to_int_call
  \/ to_float_call

SpecConvert == conv_Init /\ [][conv_Next]_vars

----------------------------------------------------------------------------
(* The drivers, each iterating the rows of its worksheet *)

(* the objects earlier worksheets have created *)
SetupSite ==
  << Obj(1, "Department", "Chem", "", "True"),
     [Obj(2, "Client", "Acme", "", "True") EXCEPT !.getName = "Acme"],
     Obj(3, "AnalysisService", "Calcium", "Ca", "True"),
     Obj(4, "AnalysisService", "Magnesium", "Mg", "True"),
     Obj(5, "Instrument", "Spectro", "", "True"),
     [Obj(6, "LabContact", "Old Hand", "", "True")
        EXCEPT !.getFullname = "Old Hand", !.getUsername = "old"],
     Obj(7, "SamplePoint", "Tap", "", "True"),
     Obj(8, "SampleType", "Water", "", "True"),
     Obj(9, "SampleType", "Soil", "", "True"),
     [Obj(10, "Client", "Bolt", "", "True") EXCEPT !.getName = "Bolt"],
     Obj(11, "ReferenceDefinition", "Std A", "", "True"),
     Obj(12, "ReferenceDefinition", "Old Std", "", "False"),
     Obj(13, "Method", "Titration", "", "True"),
     Obj(14, "Calculation", "Sum", "", "True") >>

(* the worksheets of at most MaxSheetRows data rows over a pool of rows *)
Sheets(name, pool) ==
  { [name |-> name, rows |-> r] :
      r \in UNION { [1..n -> pool] : n \in 0..MaxSheetRows } }

LabContactSheetRows ==
  LabContactRows \cup
    { [Firstname |-> "Ed", Surname |-> "Hand", Username |-> "old",
       Department_title |-> "Chem", EmailAddress |-> "ed@lab",
       Password |-> "pw", Groups |-> "Analysts"],
      [Firstname |-> "", Surname |-> "", Username |-> "old",
       Department_title |-> "", EmailAddress |-> "", Password |-> "",
       Groups |-> ""] }

(* a Formula cell is a sequence of tokens: "[", "]", ".", "^" and runs of
   other characters *)
CalculationRows ==
  { [title |-> "Hardness",
     Formula |-> <<"[", "Ca", "]", "+", "[", "Mg", "]", "*", "[", "Vol", "]">>],
    [title |-> "", Formula |-> <<"[", "Ca", "]">>],
    [title |-> "Ratio",
     Formula |-> <<"[", "Ca", "]", "/", "[", "Ca", ".", "Mg", "]", "+",
                   "[", "]", "[", "[", "Na", "]", "[", "Ca", "]", "[", "K">>] }

(* self.interim_fields, read from the 'Calculation Interim Fields' sheet *)
interim_fields(calc_title) ==
  IF calc_title = "Hardness" THEN <<[keyword |-> "Vol"]>> ELSE <<>>

TitledRows == { [title |-> "Alpha"], [title |-> ""], [title |-> "Beta"] }

CategoryRows ==
  { [title |-> "Metals", Department_title |-> "Chem"],
    [title |-> "", Department_title |-> "Chem"],
    [title |-> "Water", Department_title |-> ""],
    [title |-> "Soil", Department_title |-> "Nope"] }

InvoiceBatchRows ==
  { [title |-> "Q1", start |-> "2020-01-01", end |-> "2020-03-31"],
    [title |-> "", start |-> "2020-01-01", end |-> "2020-03-31"],
    [title |-> "Q2", start |-> "", end |-> "2020-06-30"],
    [title |-> "Q3", start |-> "2020-07-01", end |-> ""] }

InstrumentRows ==
  { [title |-> "Scale", Type |-> "", Brand |-> "", Supplier |-> "",
     Photo |-> "logo", InstalationCertificate |-> "cert"],
    [title |-> "Oven", Type |-> "", Brand |-> "", Supplier |-> "",
     Photo |-> "", InstalationCertificate |-> "manual"],
    [title |-> "Hood", Type |-> "", Brand |-> "", Supplier |-> "",
     Photo |-> "manual", InstalationCertificate |-> ""] }

MethodRows ==
  { [title |-> "Titration", Calculation_title |-> "", MethodDocument |-> "cert"],
    [title |-> "", Calculation_title |-> "", MethodDocument |-> "cert"],
    [title |-> "AAS", Calculation_title |-> "", MethodDocument |-> "manual"],
    [title |-> "ICP", Calculation_title |-> "", MethodDocument |-> ""] }

CertificationRows ==
  { [instrument |-> "Spectro", title |-> "Cal 1", report |-> "cert"],
    [instrument |-> "Spectro", title |-> "Cal 2", report |-> "manual"],
    [instrument |-> "", title |-> "Cal 3", report |-> "cert"],
    [instrument |-> "Nope", title |-> "Cal 4", report |-> "cert"] }

ResultOptionRows ==
  { [Service_title |-> "Calcium", ResultValue |-> "1"],
    [Service_title |-> "Mg", ResultValue |-> "2"],
    [Service_title |-> "Unknown", ResultValue |-> "3"] }

SamplePointSampleTypeRows ==
  { [SamplePoint_title |-> "Tap", SampleType_title |-> "Water"],
    [SamplePoint_title |-> "Tap", SampleType_title |-> "Soil"],
    [SamplePoint_title |-> "Tap", SampleType_title |-> "Mud"],
    [SamplePoint_title |-> "Well", SampleType_title |-> "Water"] }

SampleTemplateRows ==
  { [title |-> "Routine", Client_title |-> "", SampleType_title |-> "Water",
     SamplePoint_title |-> "Tap"],
    [title |-> "Acme tap", Client_title |-> "Acme",
     SampleType_title |-> "Water", SamplePoint_title |-> "Tap"],
    [title |-> "Lab soil", Client_title |-> "lab", SampleType_title |-> "Soil",
     SamplePoint_title |-> ""],
    [title |-> "Nope tap", Client_title |-> "Nope",
     SampleType_title |-> "Water", SamplePoint_title |-> "Tap"],
    [title |-> "", Client_title |-> "Bolt", SampleType_title |-> "Water",
     SamplePoint_title |-> "Tap"] }

AnalysisSpecRows ==
  { [Title |-> "Drinking", Client_title |-> "", SampleType_title |-> "Water",
     service |-> "Calcium", min |-> "1", max |-> "5"],
    [Title |-> "Drinking", Client_title |-> "", SampleType_title |-> "Soil",
     service |-> "Mg", min |-> "", max |-> ""],
    [Title |-> "Drinking", Client_title |-> "", SampleType_title |-> "Water",
     service |-> "Zinc", min |-> "2", max |-> "3"],
    [Title |-> "Waste", Client_title |-> "Acme", SampleType_title |-> "",
     service |-> "Ca", min |-> "0", max |-> "9"],
    [Title |-> "", Client_title |-> "", SampleType_title |-> "Water",
     service |-> "Zinc", min |-> "1", max |-> "2"] }

HexChars == <<"0", "1", "2", "3", "4", "5", "6", "7", "8", "9",
              "a", "b", "c", "d", "e", "f">>

(* the UID of the object with the given number, as text: 32 hexadecimal
   characters *)
uid_text(n) == [k \in 1..32 |-> IF k = 32 THEN HexChars[n + 1] ELSE "0"]

(* a text is a sequence of tokens: single characters or whole words *)
LayoutRows ==
  { [WorksheetTemplate_title |-> "WS1", pos |-> Str(<<"1">>), type |-> "c",
     blank_ref |-> <<>>, control_ref |-> <<"Std A">>, dup |-> Str(<<>>)],
    [WorksheetTemplate_title |-> "WS1", pos |-> Str(<<"2">>),
     type |-> "Control", blank_ref |-> <<>>, control_ref |-> uid_text(11),
     dup |-> Str(<<>>)],
    [WorksheetTemplate_title |-> "WS1", pos |-> Str(<<"3">>), type |-> "c",
     blank_ref |-> <<>>, control_ref |-> <<"Old Std">>, dup |-> Str(<<>>)],
    [WorksheetTemplate_title |-> "WS1", pos |-> Str(<<"4">>), type |-> "b",
     blank_ref |-> <<"Std A">>, control_ref |-> <<>>, dup |-> Str(<<>>)],
    [WorksheetTemplate_title |-> "WS2", pos |-> Str(<<"1">>),
     type |-> "Blank", blank_ref |-> <<"Nope">>, control_ref |-> <<"Std A">>,
     dup |-> Str(<<"1">>)],
    [WorksheetTemplate_title |-> "WS2", pos |-> Str(<<"2">>), type |-> "d",
     blank_ref |-> <<>>, control_ref |-> <<>>, dup |-> Str(<<"1">>)],
    [WorksheetTemplate_title |-> "WS2", pos |-> Str(<<"3">>), type |-> "a",
     blank_ref |-> <<>>, control_ref |-> <<>>, dup |-> Str(<<"2">>)] }

AllSheets ==
  Sheets("Lab Contacts", LabContactSheetRows)
    \cup Sheets("Client Contacts", ClientContactRows)
    \cup Sheets("Calculations", CalculationRows)
    \cup Sheets("Clients", ClientRows)
    \cup Sheets("Sub Groups", TitledRows)
    \cup Sheets("Lab Products", TitledRows)
    \cup Sheets("Manufacturers", TitledRows)
    \cup Sheets("Analysis Categories", CategoryRows)
    \cup Sheets("Invoice Batches", InvoiceBatchRows)
    \cup Sheets("Instruments", InstrumentRows)
    \cup Sheets("Methods", MethodRows)
    \cup Sheets("Instrument Certifications", CertificationRows)
    \cup Sheets("AnalysisService ResultOptions", ResultOptionRows)
    \cup Sheets("Sample Point Sample Types", SamplePointSampleTypeRows)
    \cup Sheets("Sample Templates", SampleTemplateRows)
    \cup Sheets("Worksheet Template Layouts", LayoutRows)
    \cup Sheets("Analysis Specifications", AnalysisSpecRows)

(* the files the dataset holds *)
Datasets == { {}, {"cert.PDF", "logo"}, {"cert", "cert.pdf"} }

sheet_Init ==
  /\ catalog = SetupSite
  /\ none_key = "nothing"
  /\ go_args = NoArgs
  /\ go_result = NoObject
  /\ go_queries = <<>>
  /\ go_log = <<>>
  /\ deferred = <<>>
  /\ enqueued = <<>>
  /\ relations = [i \in 1..Len(SetupSite) |-> <<>>]
  /\ run_pc = "import"
  /\ imported = 0
  /\ last_row = [sheet |-> ""]
  /\ drain_pos = 0
  /\ drain_log = <<>>
  /\ warnings = <<>>
  /\ logger = <<>>
  /\ members \in { {}, {"ann"} }
  /\ files \in Datasets
  /\ attached = {}
  /\ result_options = [i \in 1..Len(SetupSite) |-> <<>>]
  /\ cur_sheet \in AllSheets
  /\ sheet_pos = 0
  /\ rows_Idle
  /\ file_Idle
  /\ unc_Idle
  /\ local_Idle
  /\ conv_Idle
  /\ call_Idle

(* the row `for row in self.get_rows(3)` yields next *)
this_row == cur_sheet.rows[sheet_pos + 1]

(* the loop of the driver of worksheet `name` has a next row *)
has_row(name) ==
  /\ run_pc = "import"
  /\ cur_sheet.name = name
  /\ sheet_pos < Len(cur_sheet.rows)

(* what a driver step leaves alone *)
row_base == <<cur_sheet, files, imported, last_row, drain_pos, drain_log,
              warnings, run_base>>

row_frame == <<cur_sheet, files, imported, last_row, drain_pos, drain_log,
               warnings, run_frame>>

(* Lab_Contacts.Import, one iteration of the loop *)
Lab_Contacts_Import ==
  /\ has_row("Lab Contacts")
  /\ Lab_Contacts_Import_row(this_row)
  /\ sheet_pos' = sheet_pos + 1
  /\ UNCHANGED <<run_pc, attached, result_options>>
  /\ UNCHANGED <<cur_folder, placed, spec_bucket, wst_layouts, other_sheet,
                 other_pos>>
  /\ UNCHANGED row_base

(* Client_Contacts.Import, one iteration of the loop *)
Client_Contacts_Import ==
  /\ has_row("Client Contacts")
  /\ Client_Contacts_Import_row(this_row)
  /\ sheet_pos' = sheet_pos + 1
  /\ UNCHANGED <<run_pc, members, attached, result_options>>
  /\ UNCHANGED row_frame

(* Clients.Import, one iteration of the loop *)
Clients_Import ==
  /\ has_row("Clients")
  /\ Clients_Import_row(this_row)
  /\ sheet_pos' = sheet_pos + 1
  /\ UNCHANGED <<deferred, enqueued, logger, members, attached,
                 result_options>>
  /\ UNCHANGED row_frame

(* re.compile(r"\[([^\.^\]]+)\]").findall(formula): at a "[" the longest run
   of tokens other than ".", "^" and "]" is taken; it is a match when it is
   not empty and a "]" follows it *)
RECURSIVE findall(_)
findall(formula) ==
  IF formula = <<>> THEN <<>>
  ELSE IF Head(formula) # "["
  THEN findall(Tail(formula))
  ELSE LET stops == {i \in 2..Len(formula) : formula[i] \in {".", "^", "]"}}
       IN  IF stops = {}
           THEN findall(Tail(formula))
           ELSE LET p == CHOOSE i \in stops : \A j \in stops : i <= j
                IN  IF p > 2 /\ formula[p] = "]"
                    THEN <<join(SubSeq(formula, 2, p - 1))>>
                           \o findall(SubSeq(formula, p + 1, Len(formula)))
                    ELSE findall(Tail(formula))

(* dep_keywords = [k for k in keywords if k not in interim_keys] *)
dep_keywords(calc_title, formula) ==
  LET calc_interims == interim_fields(calc_title)
      interim_keys == {calc_interims[i].keyword : i \in 1..Len(calc_interims)}
  IN  SelectSeq(findall(formula), LAMBDA k : k \notin interim_keys)

(* Calculations.Import, one iteration of the first loop.  The loop over the
   'Methods' sheet that follows sets the Calculation field of methods, which
   is not one of the fields kept here *)
Calculations_Import ==
  /\ has_row("Calculations")
  /\ LET row == this_row
         kws == dep_keywords(row.title, row.Formula)
         links == [i \in 1..Len(kws) |->
                     Link(Len(catalog) + 1, "DependentServices",
                          "SETUP_CATALOG",
                          [portal_type |-> Val("str", "AnalysisService"),
                           getKeyword |-> Val("str", kws[i])])]
     IN  IF row.title = ""
         THEN UNCHANGED <<catalog, relations, deferred, enqueued>>
         ELSE /\ catalog' = create_object(catalog,
                              Obj(0, "Calculation", row.title, "", "True"))
              /\ relations' = Append(relations, <<>>)
              /\ deferred' = defer_each(deferred, links)
              /\ enqueued' = enqueued \o links
  /\ sheet_pos' = sheet_pos + 1
  /\ UNCHANGED <<run_pc, logger, members, attached, result_options>>
  /\ UNCHANGED row_frame

(* Sub_Groups.Import, one iteration of the loop: the result of api.create is
   not bound to a name, so `obj.unmarkCreationFlag()` raises NameError *)
Sub_Groups_Import ==
  /\ has_row("Sub Groups")
  /\ IF this_row.title = ""
     THEN UNCHANGED <<catalog, relations, run_pc>>
     ELSE /\ catalog' = create_object(catalog,
                          Obj(0, "SubGroup", this_row.title, "", "True"))
          /\ relations' = Append(relations, <<>>)
          /\ run_pc' = raise_Exception(run_pc)
  /\ sheet_pos' = sheet_pos + 1
  /\ UNCHANGED <<deferred, enqueued, logger, members, attached,
                 result_options>>
  /\ UNCHANGED row_frame

(* title = row.get("title"); if not title: continue; api.create(...) *)
create_titled(portal_type, row) ==
  IF row.title = ""
  THEN UNCHANGED <<catalog, relations>>
  ELSE /\ catalog' = create_object(catalog,
                       Obj(0, portal_type, row.title, "", "True"))
       /\ relations' = Append(relations, <<>>)

(* Lab_Products.Import, one iteration of the loop *)
Lab_Products_Import ==
  /\ has_row("Lab Products")
  /\ create_titled("LabProduct", this_row)
  /\ sheet_pos' = sheet_pos + 1
  /\ UNCHANGED <<deferred, enqueued, run_pc, logger, members, attached,
                 result_options>>
  /\ UNCHANGED row_frame

(* Manufacturers.Import, one iteration of the loop *)
Manufacturers_Import ==
  /\ has_row("Manufacturers")
  /\ create_titled("Manufacturer", this_row)
  /\ sheet_pos' = sheet_pos + 1
  /\ UNCHANGED <<deferred, enqueued, run_pc, logger, members, attached,
                 result_options>>
  /\ UNCHANGED row_frame

(* Analysis_Categories.Import, one iteration of the loop *)
Analysis_Categories_Import ==
  /\ has_row("Analysis Categories")
  /\ LET row == this_row
         department == get_object(catalog, "Department",
                                  Val("str", row.Department_title),
                                  [k \in {} |-> NoneVal]).obj
     IN  IF row.title = ""
         THEN /\ logger' = Append(logger,
                             Logged("warning", "Missing Title field", ""))
              /\ UNCHANGED <<catalog, relations>>
         ELSE IF row.Department_title = ""
         THEN /\ logger' = Append(logger,
                             Logged("warning", "Department field missing", ""))
              /\ UNCHANGED <<catalog, relations>>
         ELSE IF department = NoObject
         THEN /\ logger' = Append(logger,
                             Logged("warning", "Department is wrong",
                                    row.Department_title))
              /\ UNCHANGED <<catalog, relations>>
         ELSE /\ catalog' = create_object(catalog,
                              Obj(0, "AnalysisCategory", row.title, "", "True"))
              /\ relations' = Append(relations, <<>>)
              /\ UNCHANGED logger
  /\ sheet_pos' = sheet_pos + 1
  /\ UNCHANGED <<deferred, enqueued, run_pc, members, attached,
                 result_options>>
  /\ UNCHANGED row_frame

(* Invoice_Batches.Import, one iteration of the loop: the object is created
   before the required fields are tested *)
Invoice_Batches_Import ==
  /\ has_row("Invoice Batches")
  /\ LET row == this_row
         incomplete == row.title = "" \/ row.start = "" \/ row.end = ""
     IN  /\ catalog' = create_object(catalog,
                         Obj(0, "InvoiceBatch",
                             IF incomplete THEN "" ELSE row.title, "", "True"))
         /\ relations' = Append(relations, <<>>)
         /\ run_pc' = IF incomplete THEN raise_Exception(run_pc) ELSE run_pc
  /\ sheet_pos' = sheet_pos + 1
  /\ UNCHANGED <<deferred, enqueued, logger, members, attached,
                 result_options>>
  /\ UNCHANGED row_frame

(* the outcome of attaching a file: the fields set and the messages logged *)
Outcome(fields, messages, raised) ==
  [fields |-> fields, messages |-> messages, raised |-> raised]

(* file_data = read_file(path); obj.setX(file_data) outside a try block *)
attach_unguarded(fs, uid, field, filename) ==
  IF filename = "" THEN Outcome({}, <<>>, "")
  ELSE LET file_data == read_file(fs, filename)
       IN  IF file_data.raised # ""
           THEN Outcome({}, <<>>, file_data.raised)
           ELSE Outcome({[uid |-> uid, field |-> field,
                          data |-> file_data.data]}, <<>>, "")

(* if row.get(X): try: file_data = read_file(path); obj.setX(file_data)
   except Exception as msg: logger.warning(msg[0] + " Error on sheet: ...") *)
attach(fs, uid, field, filename) ==
  IF filename = "" THEN Outcome({}, <<>>, "")
  ELSE LET file_data == read_file(fs, filename)
       IN  IF file_data.raised # ""
           THEN Outcome({}, <<Logged("warning", "File not found", filename)>>,
                        "")
           ELSE Outcome({[uid |-> uid, field |-> field,
                          data |-> file_data.data]}, <<>>, "")

(* an IOError that leaves Import is caught by __call__: the rest of the sheet
   is not imported and a warning is logged *)
after_attach(outcomes) ==
  LET raised == \E i \in 1..Len(outcomes) : outcomes[i].raised # ""
      first == IF raised
               THEN CHOOSE i \in 1..Len(outcomes) :
                      /\ outcomes[i].raised # ""
                      /\ \A j \in 1..(i - 1) : outcomes[j].raised = ""
               ELSE Len(outcomes)
      done == [i \in 1..first |-> outcomes[i]]
  IN  /\ attached' = attached \cup UNION {done[i].fields : i \in 1..first}
      /\ logger' =
           logger \o
             (IF first >= 1 THEN done[1].messages ELSE <<>>) \o
             (IF first >= 2 THEN done[2].messages ELSE <<>>) \o
             (IF raised
              THEN <<Logged("warning", "Error while loading attached file",
                            cur_sheet.name)>>
              ELSE <<>>)
      /\ sheet_pos' = IF raised THEN Len(cur_sheet.rows) ELSE sheet_pos + 1

(* Instruments.Import, one iteration of the loop *)
Instruments_Import ==
  /\ has_row("Instruments")
  /\ LET row == this_row
         uid == Len(catalog) + 1
     IN  IF \/ "Type" \notin DOMAIN row
            \/ "Supplier" \notin DOMAIN row
            \/ "Brand" \notin DOMAIN row
         THEN /\ logger' = Append(logger,
                             Logged("info", "Unable to import", row.title))
              /\ sheet_pos' = sheet_pos + 1
              /\ UNCHANGED <<catalog, relations, attached>>
         ELSE /\ catalog' = create_object(catalog,
                              Obj(0, "Instrument", row.title, "", "True"))
              /\ relations' = Append(relations, <<>>)
              /\ after_attach(
                   <<attach(files, uid, "Photo", row.Photo),
                     attach(files, uid, "InstallationCertificate",
                            row.InstalationCertificate)>>)
  /\ UNCHANGED <<deferred, enqueued, run_pc, members, result_options>>
  /\ UNCHANGED row_frame

(* Methods.Import, one iteration of the loop.  The loop comparing MethodID
   with the methods created so far sets no field kept here *)
Methods_Import ==
  /\ has_row("Methods")
  /\ LET row == this_row
         uid == Len(catalog) + 1
     IN  IF row.title = ""
         THEN /\ sheet_pos' = sheet_pos + 1
              /\ UNCHANGED <<catalog, relations, attached, logger>>
         ELSE /\ catalog' = create_object(catalog,
                              Obj(0, "Method", row.title, "", "True"))
              /\ relations' = Append(relations, <<>>)
              /\ after_attach(
                   <<attach(files, uid, "MethodDocument", row.MethodDocument)>>)
  /\ UNCHANGED <<deferred, enqueued, run_pc, members, result_options>>
  /\ UNCHANGED row_frame

(* Instrument_Certifications.Import, one iteration of the loop *)
Instrument_Certifications_Import ==
  /\ has_row("Instrument Certifications")
  /\ LET row == this_row
         uid == Len(catalog) + 1
         folder == get_object(catalog, "Instrument",
                              Val("str", row.instrument),
                              [k \in {} |-> NoneVal]).obj
     IN  IF row.instrument = "" \/ row.title = "" \/ folder = NoObject
         THEN /\ sheet_pos' = sheet_pos + 1
              /\ UNCHANGED <<catalog, relations, attached, logger>>
         ELSE /\ catalog' = create_object(catalog,
                              Obj(0, "InstrumentCertification", row.title,
                                  "", "True"))
              /\ relations' = Append(relations, <<>>)
              /\ after_attach(<<attach(files, uid, "Document", row.report)>>)
  /\ UNCHANGED <<deferred, enqueued, run_pc, members, result_options>>
  /\ UNCHANGED row_frame

(* Analysis_Services.load_result_options, one iteration of the loop: an
   unresolved service makes the method return *)
load_result_options ==
  /\ has_row("AnalysisService ResultOptions")
  /\ LET row == this_row
         service == get_object(catalog, "AnalysisService",
                               Val("str", row.Service_title),
                               [k \in {} |-> NoneVal]).obj
     IN  IF service = NoObject
         THEN /\ sheet_pos' = Len(cur_sheet.rows)
              /\ UNCHANGED result_options
         ELSE /\ result_options' =
                   [result_options EXCEPT ![service.uid] =
                      Append(@, [ResultValue |-> row.ResultValue])]
              /\ sheet_pos' = sheet_pos + 1
  /\ UNCHANGED <<catalog, relations, deferred, enqueued, run_pc, logger,
                 members, attached>>
  /\ UNCHANGED row_frame

(* the uid of a reference the driver holds: 0 for None *)
uid_of(obj) == obj.uid

(* Sample_Point_Sample_Types.Import, one iteration of the loop *)
Sample_Point_Sample_Types_Import ==
  /\ has_row("Sample Point Sample Types")
  /\ LET row == this_row
         sampletype == get_object(catalog, "SampleType",
                                  Val("str", row.SampleType_title),
                                  [k \in {} |-> NoneVal]).obj
         samplepoint == get_object(catalog, "SamplePoint",
                                   Val("str", row.SamplePoint_title),
                                   [k \in {} |-> NoneVal]).obj
     IN  IF samplepoint # NoObject
         THEN LET sampletypes == relations[samplepoint.uid]
              IN  IF \A i \in 1..Len(sampletypes) :
                       sampletypes[i] # uid_of(sampletype)
                  THEN relations' =
                         [relations EXCEPT ![samplepoint.uid] =
                            Append(sampletypes, uid_of(sampletype))]
                  ELSE UNCHANGED relations
         ELSE UNCHANGED relations
  /\ sheet_pos' = sheet_pos + 1
  /\ UNCHANGED <<catalog, deferred, enqueued, run_pc, logger, members,
                 attached, result_options>>
  /\ UNCHANGED row_frame

(* setup.sampletemplates, the folder of the lab: not a catalogued object *)
sampletemplates == 0

(* api.search({"portal_type": "Client", "getName": client_title},
   CLIENT_CATALOG) *)
search_client(cat, client_title) ==
  SelectSeq(cat, LAMBDA o : o.portal_type = "Client"
                              /\ o.getName = client_title)

(* Sample_Templates.Import, one iteration of the loop; the relation of a
   template holds its sample type and its sample point; its services and
   partitions, read from two other sheets, are left out *)
Sample_Templates_Import ==
  /\ has_row("Sample Templates")
  /\ LET row == this_row
         client_title == IF row.Client_title = "" THEN "lab"
                         ELSE row.Client_title
         client == search_client(catalog, client_title)
         into == IF client_title = "lab" THEN sampletemplates
                 ELSE IF Len(client) = 1 THEN client[1].uid
                 ELSE cur_folder
         sampletype == get_object(catalog, "SampleType",
                                  Val("str", row.SampleType_title),
                                  [k \in {} |-> NoneVal]).obj
         samplepoint == get_object(catalog, "SamplePoint",
                                   Val("str", row.SamplePoint_title),
                                   [k \in {} |-> NoneVal]).obj
     IN  IF row.title = ""
         THEN UNCHANGED <<catalog, relations, cur_folder, placed>>
         ELSE /\ cur_folder' = into
              /\ catalog' = create_object(catalog,
                              Obj(0, "SampleTemplate", row.title, "", "True"))
              /\ relations' = Append(relations, <<uid_of(sampletype),
                                                  uid_of(samplepoint)>>)
              /\ placed' = Append(placed, [uid |-> Len(catalog) + 1,
                                           folder |-> into])
  /\ sheet_pos' = sheet_pos + 1
  /\ UNCHANGED <<deferred, enqueued, run_pc, logger, members, attached,
                 result_options>>
  /\ UNCHANGED <<rownum, spec_bucket, wst_layouts, other_sheet, other_pos>>
  /\ UNCHANGED row_base

(* a value or None, as a sequence of at most one element *)
Nothing == <<>>
Some(x) == <<x>>

(* api.is_uid(value): a text of 32 hexadecimal characters *)
is_uid(text) ==
  /\ Len(text) = 32
  /\ \A k \in 1..32 : \E h \in 1..16 : HexChars[h] = text[k]

(* Worksheet_Templates.load_definitions: the UID of every active reference
   definition, by title; a later brain replaces an earlier one of the same
   title *)
load_definitions(cat) ==
  LET brains == SelectSeq(cat, LAMBDA o :
                             /\ o.portal_type = "ReferenceDefinition"
                             /\ o.is_active = "True")
  IN  [t \in {brains[i].title : i \in 1..Len(brains)} |->
         uid_text(brains[CHOOSE i \in 1..Len(brains) :
                           /\ brains[i].title = t
                           /\ \A j \in 1..Len(brains) :
                                brains[j].title = t => j <= i].uid)]

(* `ref if api.is_uid(ref) else definitions.get(ref, None)` *)
reference_uid(definitions, ref) ==
  IF is_uid(ref) THEN Some(ref)
  ELSE IF join(ref) \in DOMAIN definitions THEN Some(definitions[join(ref)])
  ELSE Nothing

(* analysis_type[0].lower() *)
first_lower(analysis_type) ==
  CASE analysis_type \in {"b", "Blank"} -> "b"
    [] analysis_type \in {"c", "Control"} -> "c"
    [] analysis_type \in {"d", "Duplicate"} -> "d"
    [] OTHER -> "a"

(* load_wst_layouts, the entry appended for a row: the lists blank_ref and
   control_ref hold at most one UID, and control_ref is filled under the test
   of blank_uid *)
layout_entry(definitions, row) ==
  LET dup0 == IF row.dup.val # <<>> THEN Some(py_int(row.dup).data)
              ELSE Nothing
      blank_uid == IF row.type \in {"b", "Blank"}
                   THEN reference_uid(definitions, row.blank_ref)
                   ELSE Nothing
      control_uid == IF row.type \in {"c", "Control"}
                     THEN reference_uid(definitions, row.control_ref)
                     ELSE Nothing
      ref_proxy == IF row.type \in {"b", "Blank"} THEN blank_uid
                   ELSE control_uid
      dup == IF row.type \in {"d", "Duplicate"} THEN dup0 ELSE Nothing
  IN  [pos |-> py_int(row.pos).data,
       type |-> first_lower(row.type),
       blank_ref |-> blank_uid,
       control_ref |-> IF blank_uid # Nothing THEN control_uid ELSE <<>>,
       reference_proxy |-> ref_proxy,
       dup |-> dup,
       dup_proxy |-> dup]

(* self.wst_layouts[wst_title].append(entry), the list made on first use *)
layouts_append(layouts, wst_title, entry) ==
  [t \in DOMAIN layouts \cup {wst_title} |->
     IF t = wst_title
     THEN IF t \in DOMAIN layouts THEN Append(layouts[t], entry)
          ELSE <<entry>>
     ELSE layouts[t]]

(* Worksheet_Templates.load_wst_layouts, one iteration of the loop *)
load_wst_layouts ==
  /\ has_row("Worksheet Template Layouts")
  /\ wst_layouts' = layouts_append(wst_layouts,
                                   this_row.WorksheetTemplate_title,
                                   layout_entry(load_definitions(catalog),
                                                this_row))
  /\ sheet_pos' = sheet_pos + 1
  /\ UNCHANGED <<catalog, relations, deferred, enqueued, run_pc, logger,
                 members, attached, result_options>>
  /\ UNCHANGED <<rownum, cur_folder, placed, spec_bucket, other_sheet,
                 other_pos>>
  /\ UNCHANGED row_base

(* Analysis_Specifications.resolve_service: by title, then by keyword, and
   service[0] of the result: IndexError when both are empty *)
resolve_service(cat, row) ==
  LET byTitle == SelectSeq(cat, LAMBDA o : o.portal_type = "AnalysisService"
                                            /\ o.title = row.service)
      byKeyword == SelectSeq(cat, LAMBDA o :
                               o.portal_type = "AnalysisService"
                                 /\ o.getKeyword = row.service)
      service == IF byTitle # <<>> THEN byTitle ELSE byKeyword
  IN  IF service = <<>> THEN Raises("IndexError") ELSE Returns(service[1])

(* the positions of bucket[parent][title]; obj is the uid of the
   AnalysisSpec written for the entry, 0 before it is written *)
bucket_at(bucket, parent, title) ==
  { i \in 1..Len(bucket) :
      bucket[i].parent = parent /\ bucket[i].title = title }

(* bucket[parent][title]["resultsrange"].append(range), the entry made on
   first use with the sample type of that row *)
bucket_add(bucket, parent, title, st, range) ==
  IF bucket_at(bucket, parent, title) = {}
  THEN Append(bucket, [parent |-> parent, title |-> title, sampletype |-> st,
                       resultsrange |-> <<range>>, obj |-> 0])
  ELSE [i \in 1..Len(bucket) |->
          IF i \in bucket_at(bucket, parent, title)
          THEN [bucket[i] EXCEPT !.resultsrange = Append(@, range)]
          ELSE bucket[i]]

(* Analysis_Specifications.Import, one iteration of the collecting loop *)
Analysis_Specifications_Import ==
  /\ has_row("Analysis Specifications")
  /\ LET row == this_row
         parent == IF row.Client_title # "" THEN row.Client_title ELSE "lab"
         service == resolve_service(catalog, row)
         range == [keyword |-> service.data.getKeyword,
                   min |-> IF row.min # "" THEN row.min ELSE "0",
                   max |-> IF row.max # "" THEN row.max ELSE "0"]
     IN  IF row.Title = ""
         THEN UNCHANGED <<spec_bucket, run_pc>>
         ELSE IF service.raised # ""
         THEN /\ run_pc' = raise_Exception(run_pc)
              /\ UNCHANGED spec_bucket
         ELSE /\ spec_bucket' = bucket_add(spec_bucket, parent, row.Title,
                                           row.SampleType_title, range)
              /\ UNCHANGED run_pc
  /\ sheet_pos' = sheet_pos + 1
  /\ UNCHANGED <<catalog, relations, deferred, enqueued, logger, members,
                 attached, result_options>>
  /\ UNCHANGED <<rownum, cur_folder, placed, wst_layouts, other_sheet,
                 other_pos>>
  /\ UNCHANGED row_base

(* context.bika_setup.bika_analysisspecs, the folder of the lab: not a
   catalogued object *)
bika_analysisspecs == 0

(* the entries `for parent in bucket.keys(): for title in bucket[parent]` may
   take next: the order of a dict is not fixed, but the titles of one parent
   are written one after the other *)
next_entries(bucket) ==
  LET unwritten == { i \in 1..Len(bucket) : bucket[i].obj = 0 }
      begun == { i \in unwritten :
                   \E j \in 1..Len(bucket) :
                     bucket[j].obj # 0 /\ bucket[j].parent = bucket[i].parent }
  IN  IF begun # {} THEN begun ELSE unwritten

(* Analysis_Specifications.Import, one iteration of the writing loop *)
Analysis_Specifications_write ==
  /\ run_pc = "import"
  /\ cur_sheet.name = "Analysis Specifications"
  /\ sheet_pos = Len(cur_sheet.rows)
  /\ \E i \in next_entries(spec_bucket) :
       LET entry == spec_bucket[i]
           proxy == search_client(catalog, entry.parent)
           st == SelectSeq(catalog, LAMBDA o :
                             o.portal_type = "SampleType"
                               /\ o.title = entry.sampletype)
           uid == Len(catalog) + 1
       IN  IF \/ entry.parent # "lab" /\ proxy = <<>>
              \/ entry.sampletype # "" /\ st = <<>>
           THEN /\ run_pc' = raise_Exception(run_pc)
                /\ UNCHANGED <<catalog, relations, placed, spec_bucket>>
           ELSE /\ catalog' = create_object(catalog,
                                Obj(0, "AnalysisSpec", entry.title, "", "True"))
                /\ relations' = Append(relations,
                                       IF entry.sampletype # ""
                                       THEN <<st[1].uid>> ELSE <<>>)
                /\ placed' = Append(placed,
                                    [uid |-> uid,
                                     folder |-> IF entry.parent = "lab"
                                                THEN bika_analysisspecs
                                                ELSE proxy[1].uid])
                /\ spec_bucket' = [spec_bucket EXCEPT ![i].obj = uid]
                /\ UNCHANGED run_pc
  /\ UNCHANGED <<deferred, enqueued, logger, members, attached,
                 result_options, sheet_pos>>
  /\ UNCHANGED <<rownum, cur_folder, wst_layouts, other_sheet, other_pos>>
  /\ UNCHANGED row_base

sheet_Next ==
  \/ Lab_Contacts_Import
  \/ Client_Contacts_Import
  \/ Clients_Import
  \/ Calculations_Import
  \/ Sub_Groups_Import
  \/ Lab_Products_Import
  \/ Manufacturers_Import
  \/ Analysis_Categories_Import
  \/ Invoice_Batches_Import
  \/ Instruments_Import
  \/ Methods_Import
  \/ Instrument_Certifications_Import
  \/ load_result_options
  \/ Sample_Point_Sample_Types_Import
  \/ Sample_Templates_Import
  \/ load_wst_layouts
  \/ Analysis_Specifications_Import
  \/ Analysis_Specifications_write
  \/ solve_deferred_begin
  \/ solve_deferred_link
  \/ solve_deferred_end

SpecSheets == sheet_Init /\ [][sheet_Next]_vars

----------------------------------------------------------------------------
(* The passes that follow the loops of Lab_Contacts and Calculations *)

(* the rows of 'Lab Departments' as the pass of Lab_Contacts reads them *)
ManagerRows ==
  { [title |-> "Chem", LabContact_Username |-> "old"],
    [title |-> "Chem", LabContact_Username |-> "ann"],
    [title |-> "Chem", LabContact_Username |-> ""],
    [title |-> "Food", LabContact_Username |-> "old"],
    [title |-> "Chem", LabContact_Username |-> "zed"] }

(* the rows of 'Methods' as the pass of Calculations reads them *)
MethodCalculationRows ==
  { [title |-> "Titration", Calculation_title |-> "Sum"],
    [title |-> "Titration", Calculation_title |-> "Ratio"],
    [title |-> "Titration", Calculation_title |-> ""],
    [title |-> "Gravimetry", Calculation_title |-> "Sum"],
    [title |-> "Titration", Calculation_title |-> "Nope"] }

(* the worksheets of at most one data row *)
ShortSheets(name, pool) ==
  { [name |-> name, rows |-> r] : r \in {<<>>} \cup { <<x>> : x \in pool } }

(* the relations of the site, with or without a manager of department Chem
   and a calculation of method Titration *)
SiteRelations ==
  { [i \in 1..Len(SetupSite) |->
       IF i = 1 THEN m ELSE IF i = 13 THEN c ELSE <<>>] :
      m \in {<<>>, <<6>>}, c \in {<<>>, <<14>>} }

pass_Init ==
  /\ catalog = SetupSite
  /\ none_key = "nothing"
  /\ go_args = NoArgs
  /\ go_result = NoObject
  /\ go_queries = <<>>
  /\ go_log = <<>>
  /\ deferred = <<>>
  /\ enqueued = <<>>
  /\ relations \in SiteRelations
  /\ run_pc = "import"
  /\ imported = 0
  /\ last_row = [sheet |-> ""]
  /\ drain_pos = 0
  /\ drain_log = <<>>
  /\ warnings = <<>>
  /\ logger = <<>>
  /\ members = {}
  /\ files = {}
  /\ attached = {}
  /\ result_options = [i \in 1..Len(SetupSite) |-> <<>>]
  /\ cur_sheet \in ShortSheets("Lab Contacts", LabContactSheetRows)
                     \cup ShortSheets("Calculations", CalculationRows)
  /\ sheet_pos = 0
  /\ local_Init
  /\ other_sheet \in IF cur_sheet.name = "Lab Contacts"
                     THEN Sheets("Lab Departments", ManagerRows)
                     ELSE Sheets("Methods", MethodCalculationRows)
  /\ rows_Idle
  /\ file_Idle
  /\ unc_Idle
  /\ conv_Idle
  /\ call_Idle

(* the row `for row in self.get_rows(3, sheet)` yields next *)
other_row == other_sheet.rows[other_pos + 1]

(* the loop of the driver of `name` is over and its pass over the worksheet
   `second` has a next row *)
has_other_row(name, second) ==
  /\ run_pc = "import"
  /\ cur_sheet.name = name
  /\ sheet_pos = Len(cur_sheet.rows)
  /\ other_sheet.name = second
  /\ other_pos < Len(other_sheet.rows)

(* the test of the field left out: every row sets it *)
unset_untested(value) == TRUE

(* `not dept.getManager()`, `not meth.getCalculation()` *)
unset(value) == value = <<>>

(* exists[0] of the list comprehension over the lab contacts *)
first_of(indices) == CHOOSE i \in indices : \A j \in indices : i <= j

(* Lab_Contacts.Import, one iteration of the pass that sets the managers of
   the departments *)
Lab_Contacts_managers ==
  /\ has_other_row("Lab Contacts", "Lab Departments")
  /\ LET row == other_row
         dept == get_object(catalog, "Department", Val("str", row.title),
                            [k \in {} |-> NoneVal]).obj
         exists == username_exists(catalog, row.LabContact_Username)
     IN  IF /\ row.title # ""
            /\ row.LabContact_Username # ""
            /\ dept # NoObject
            /\ unset(relations[dept.uid])
            /\ exists # {}
         THEN relations' = [relations EXCEPT
                              ![dept.uid] = <<catalog[first_of(exists)].uid>>]
         ELSE UNCHANGED relations
  /\ other_pos' = other_pos + 1
  /\ UNCHANGED <<catalog, deferred, enqueued, run_pc, logger, members,
                 attached, result_options, sheet_pos>>
  /\ UNCHANGED <<rownum, cur_folder, placed, spec_bucket, wst_layouts,
                 other_sheet>>
  /\ UNCHANGED row_base

(* Calculations.Import, one iteration of the pass that sets the calculations
   of the methods *)
Calculations_methods ==
  /\ has_other_row("Calculations", "Methods")
  /\ LET row == other_row
         meth == get_object(catalog, "Method", Val("str", row.title),
                            [k \in {} |-> NoneVal]).obj
         calc == get_object(catalog, "Calculation",
                            Val("str", row.Calculation_title),
                            [k \in {} |-> NoneVal]).obj
     IN  IF /\ row.title # ""
            /\ row.Calculation_title # ""
            /\ meth # NoObject
            /\ unset(relations[meth.uid])
            /\ calc # NoObject
         THEN relations' = [relations EXCEPT ![meth.uid] = <<calc.uid>>]
         ELSE UNCHANGED relations
  /\ other_pos' = other_pos + 1
  /\ UNCHANGED <<catalog, deferred, enqueued, run_pc, logger, members,
                 attached, result_options, sheet_pos>>
  /\ UNCHANGED <<rownum, cur_folder, placed, spec_bucket, wst_layouts,
                 other_sheet>>
  /\ UNCHANGED row_base

pass_Next ==
  \/ Lab_Contacts_Import
  \/ Lab_Contacts_managers
  \/ Calculations_Import
  \/ Calculations_methods
  \/ solve_deferred_begin
  \/ solve_deferred_link
  \/ solve_deferred_end

SpecPasses == pass_Init /\ [][pass_Next]_vars

----------------------------------------------------------------------------
(* Analysis_Services.load_service_uncertainties and write_bucket *)

(* the 500 of `if count > 500` *)
FlushThreshold == 500

(* the services the uncertainties sheet refers to *)
ServiceSite ==
  << Obj(1, "AnalysisService", "Calcium", "Ca", "True"),
     Obj(2, "AnalysisService", "Magnesium", "Mg", "True"),
     Obj(3, "AnalysisService", "Sodium", "Na", "True") >>

UncLayouts == {"one", "three", "gaps"}

(* row.get('Service_title') of the i-th data row of the sheet *)
Service_title(rows, i) ==
  CASE rows.layout = "one" -> "Calcium"
    [] rows.layout = "three" ->
         (CASE i % 3 = 1 -> "Calcium" [] i % 3 = 2 -> "Mg" [] OTHER -> "Sodium")
    [] OTHER ->
         (CASE i % 3 = 1 -> "Calcium" [] i % 3 = 2 -> "Unknown"
            [] OTHER -> "Magnesium")

(* the dict appended for the i-th data row; its values are the row's cells *)
payload(i) == [intercept_min |-> i, intercept_max |-> i, errorvalue |-> i]

(* the uncertainties a service may hold before the pass *)
OldPayload == [intercept_min |-> 0, intercept_max |-> 0, errorvalue |-> 0]

EmptyBucket == [u \in {} |-> <<>>]

(* if service_uid not in bucket: bucket[service_uid] = [];
   bucket[service_uid].append(...) *)
bucket_append(bucket, uid, p) ==
  [u \in DOMAIN bucket \cup {uid} |->
     IF u = uid
     THEN (IF u \in DOMAIN bucket THEN Append(bucket[u], p) ELSE <<p>>)
     ELSE bucket[u]]

(* write_bucket with setUncertainties(uncertainties): the stored list is
   replaced *)
write_bucket_overwrite(unc, bucket) ==
  [u \in DOMAIN unc |-> IF u \in DOMAIN bucket THEN bucket[u] ELSE unc[u]]

(* write_bucket(self, bucket) *)
write_bucket(unc, bucket) ==
  [u \in DOMAIN unc |->
     IF u \in DOMAIN bucket THEN unc[u] \o bucket[u] ELSE unc[u]]

RECURSIVE SumLen(_, _)
SumLen(f, D) ==
  IF D = {} THEN 0
  ELSE LET u == CHOOSE x \in D : TRUE
       IN  Len(f[u]) + SumLen(f, D \ {u})

(* the record of one write_bucket call *)
Flush(row, bucket, final) ==
  [row |-> row, payloads |-> SumLen(bucket, DOMAIN bucket), final |-> final]

unc_Init ==
  /\ catalog = ServiceSite
  /\ none_key = "nothing"
  /\ go_args = NoArgs
  /\ go_result = NoObject
  /\ go_queries = <<>>
  /\ go_log = <<>>
  /\ unc_rows \in [n : (0..MaxRows) \cup {UncRows}, layout : UncLayouts]
  /\ unc_pos = 1
  /\ unc_count = 0
  /\ unc_bucket = EmptyBucket
  /\ unc_before \in { [u \in 1..Len(ServiceSite) |-> <<>>],
                      [u \in 1..Len(ServiceSite) |->
                         IF u = 1 THEN <<OldPayload>> ELSE <<>>] }
  /\ uncertainties = unc_before
  /\ flushes = <<>>
  /\ unc_pc = "rows"
  /\ rows_Idle
  /\ deferred_Idle
  /\ site_Idle
  /\ file_Idle
  /\ local_Idle
  /\ conv_Idle
  /\ call_Idle

(* load_service_uncertainties: the body of the loop for one row *)
load_service_uncertainties_row ==
  /\ unc_pc = "rows"
  /\ unc_pos <= unc_rows.n
  /\ unc_count' = unc_count + 1
  /\ LET service == get_object(catalog, "AnalysisService",
                               Val("str", Service_title(unc_rows, unc_pos)),
                               [k \in {} |-> NoneVal]).obj
         filled == bucket_append(unc_bucket, service.uid, payload(unc_pos))
     IN  IF service = NoObject
         THEN /\ logger' = Append(logger,
                             [level |-> "warning",
                              text |-> "Unable to load an Analysis Service uncertainty",
                              about |-> Service_title(unc_rows, unc_pos)])
              /\ UNCHANGED <<unc_bucket, uncertainties, flushes>>
         ELSE /\ IF unc_count' > FlushThreshold
                 THEN /\ uncertainties' = write_bucket(uncertainties, filled)
                      /\ unc_bucket' = EmptyBucket
                      /\ flushes' = Append(flushes,
                                           Flush(unc_pos, filled, FALSE))
                 ELSE /\ unc_bucket' = filled
                      /\ UNCHANGED <<uncertainties, flushes>>
              /\ UNCHANGED logger
  /\ unc_pos' = unc_pos + 1
  /\ UNCHANGED <<unc_rows, unc_before, unc_pc, catalog>>
  /\ UNCHANGED unc_frame

(* load_service_uncertainties after the loop: `if bucket: write_bucket` *)
load_service_uncertainties_end ==
  /\ unc_pc = "rows"
  /\ unc_pos > unc_rows.n
  /\ IF DOMAIN unc_bucket # {}
     THEN /\ uncertainties' = write_bucket(uncertainties, unc_bucket)
          /\ flushes' = Append(flushes, Flush(unc_pos, unc_bucket, TRUE))
     ELSE UNCHANGED <<uncertainties, flushes>>
  /\ unc_pc' = "done"
  /\ UNCHANGED <<unc_rows, unc_pos, unc_count, unc_bucket, unc_before,
                 catalog, logger>>
  /\ UNCHANGED unc_frame

unc_Next ==
  \/ load_service_uncertainties_row
  \/ load_service_uncertainties_end

SpecUncertainties == unc_Init /\ [][unc_Next]_vars

----------------------------------------------------------------------------
(* WorksheetImporter.__call__ around any Import *)

(* what the body of the loop of an Import does with a row: it completes, or
   an IOError leaves Import, or another exception leaves Import *)
RowOutcomes == {"ok", "IOError", "Exception"}

OutcomeRows == UNION { [1..n -> RowOutcomes] : n \in 0..MaxSheetRows }

(* the class names of two drivers *)
DriverClasses == { <<"Instruments">>, <<"Lab", "_", "Contacts">> }

SheetNames == {"Instruments", "Lab Contacts"}

(* self.__class__.__name__.replace("_", " ") *)
replace_underscores(name) ==
  join([i \in 1..Len(name) |-> IF name[i] = "_" THEN " " ELSE name[i]])

call_Init ==
  /\ workbook \in UNION { [names -> OutcomeRows] : names \in SUBSET SheetNames }
  /\ sheetname = ""
  /\ invoked = 0
  /\ run_pc = "call"
  /\ cur_sheet = NoSheet
  /\ sheet_pos = 0
  /\ imported = 0
  /\ logger = <<>>
  /\ deferred = <<>>
  /\ enqueued = <<>>
  /\ relations = <<>>
  /\ last_row = [sheet |-> ""]
  /\ drain_pos = 0
  /\ drain_log = <<>>
  /\ warnings = <<>>
  /\ members = {}
  /\ files = {}
  /\ attached = {}
  /\ result_options = <<>>
  /\ rows_Idle
  /\ resolver_Idle
  /\ file_Idle
  /\ unc_Idle
  /\ local_Idle
  /\ conv_Idle

call_frame == <<rows_vars, resolver_vars, deferred, enqueued, relations,
                last_row, drain_pos, drain_log, warnings, members, files,
                attached, result_options, file_vars, unc_vars, local_vars,
                conv_vars, workbook>>

(* __call__ up to the test of self.worksheet: the sheet is looked up by the
   name made from the class name; Import is invoked when it is there *)
call_begin ==
  \E cls \in DriverClasses :
    LET name == replace_underscores(cls)
    IN  /\ run_pc = "call"
        /\ sheetname' = name
        /\ IF name \in DOMAIN workbook
           THEN /\ cur_sheet' = [name |-> name, rows |-> workbook[name]]
                /\ logger' = Append(logger, Logged("info", "Loading", name))
                /\ invoked' = invoked + 1
                /\ run_pc' = "import"
           ELSE /\ cur_sheet' = NoSheet
                /\ logger' = Append(logger,
                                    Logged("info", "No records found", name))
                /\ invoked' = invoked
                /\ run_pc' = "done"
        /\ UNCHANGED <<sheet_pos, imported>>
        /\ UNCHANGED call_frame

(* the IOError propagated like any other exception *)
except_IOError_reraised(outcome, pc, log) ==
  [pc |-> "aborted", log |-> log]

(* try: self.Import() except IOError: logger.warning(...): the IOError ends
   Import and __call__ returns after the warning; any other exception
   leaves __call__ *)
except_IOError(outcome, pc, log) ==
  IF outcome = "IOError"
  THEN [pc |-> "done",
        log |-> Append(log, Logged("warning",
                                   "Error while loading attached file",
                                   sheetname))]
  ELSE [pc |-> "aborted", log |-> log]

(* one iteration of the loop of Import *)
Import_row ==
  /\ run_pc = "import"
  /\ cur_sheet.name = sheetname
  /\ sheet_pos < Len(cur_sheet.rows)
  /\ LET outcome == cur_sheet.rows[sheet_pos + 1]
         handled == except_IOError(outcome, run_pc, logger)
     IN  IF outcome = "ok"
         THEN /\ sheet_pos' = sheet_pos + 1
              /\ imported' = imported + 1
              /\ UNCHANGED <<run_pc, logger>>
         ELSE /\ run_pc' = handled.pc
              /\ logger' = handled.log
              /\ UNCHANGED <<sheet_pos, imported>>
  /\ UNCHANGED <<cur_sheet, sheetname, invoked>>
  /\ UNCHANGED call_frame

(* Import returns after the last row, and __call__ after it *)
Import_return ==
  /\ run_pc = "import"
  /\ cur_sheet.name = sheetname
  /\ sheet_pos = Len(cur_sheet.rows)
  /\ run_pc' = "done"
  /\ UNCHANGED <<cur_sheet, sheetname, invoked, sheet_pos, imported, logger>>
  /\ UNCHANGED call_frame

call_Next ==
  \/ call_begin
  \/ Import_row
  \/ Import_return

SpecCall == call_Init /\ [][call_Next]_vars

----------------------------------------------------------------------------
(* Properties of get_rows *)

AddTypeSet == {AddTypes[i] : i \in 1..Len(AddTypes)}

(* the worksheet row a yielded record was built from *)
source_row(i) == worksheet[yielded_nr[i]]

(* C1 as stated: get_rows yields exactly the rows whose 1-based index is
   greater than startrow, in sheet order and once each. *)
C1_AsStated ==
  yielded_nr = [i \in 1..Max(0, row_nr - startrow) |-> startrow + i]

(* C1: get_rows yields exactly the rows whose 1-based index is greater than
   both startrow and 1 (row 1 is the header row and is never yielded), in
   sheet order and once each; the row with index startrow is excluded and,
   for startrow >= 1, the row with index startrow+1 is the first yielded. *)
C1_RowsAfterStartrow ==
  LET first == Max(startrow, 1)
  IN  /\ yielded_nr = [i \in 1..Max(0, row_nr - first) |-> first + i]
      /\ Len(yielded) = Len(yielded_nr)
      /\ \A i \in 1..Len(yielded) :
           \A h \in {worksheet[1][j] : j \in 1..Len(worksheet[1])} :
             h \in DOMAIN yielded[i]

C1_Witness ==
  /\ rows_pc = "done"
  /\ startrow = 3
  /\ Len(worksheet) = 5
  /\ yielded_nr = <<4, 5>>

(* the case of C2: Physical_Address='789 Elm', Physical_City='Springfield'
   and no other Physical_* column *)
C2_Case(rec) ==
  /\ "Physical_Address" \in DOMAIN rec
  /\ "Physical_City" \in DOMAIN rec
  /\ rec["Physical_Address"] = Str(T_789Elm)
  /\ rec["Physical_City"] = Str(T_Springfield)
  /\ \A key \in AddressKeySet \ {"Address", "City"} :
       ("Physical_" \o key) \notin DOMAIN rec

(* C2 as stated: record['Physical'] is the mapping with the six lower-case
   keys address, city, state, district, zip, country. *)
C2_AsStated ==
  \A i \in 1..Len(yielded) :
    C2_Case(yielded[i]) =>
      yielded[i]["Physical"] =
        [address |-> Str(T_789Elm), city |-> Str(T_Springfield),
         state |-> EmptyStr, district |-> EmptyStr, zip |-> EmptyStr,
         country |-> EmptyStr]

(* C2: for such a row record['Physical'] is the mapping with the six
   capitalised keys Address, City, State, District, Zip, Country, holding
   '789 Elm', 'Springfield' and empty strings for the other four. *)
C2_PhysicalMapping ==
  \A i \in 1..Len(yielded) :
    C2_Case(yielded[i]) =>
      yielded[i]["Physical"] =
        [Address |-> Str(T_789Elm), City |-> Str(T_Springfield),
         State |-> EmptyStr, District |-> EmptyStr, Zip |-> EmptyStr,
         Country |-> EmptyStr]

C2_Witness ==
  \E i \in 1..Len(yielded) :
    /\ C2_Case(yielded[i])
    /\ DOMAIN yielded[i]["Physical"] = AddressKeySet

(* C3 as stated: whenever a category key is present in a record, its
   sub-mapping contains all six sub-keys. *)
C3_AsStated ==
  \A i \in 1..Len(yielded) :
    \A cat \in AddTypeSet :
      cat \in DOMAIN yielded[i] => DOMAIN yielded[i][cat] = AddressKeySet

(* C3: every yielded record has the three category keys; when the sheet has
   the <category>_Address column the sub-mapping contains all six sub-keys,
   with an empty string for each sub-column absent from the sheet; when the
   sheet has no <category>_Address column the sub-mapping is empty. *)
C3_AddressSubKeys ==
  \A i \in 1..Len(yielded) :
    \A cat \in AddTypeSet :
      /\ cat \in DOMAIN yielded[i]
      /\ IF (cat \o "_Address") \in DOMAIN yielded[i]
         THEN /\ DOMAIN yielded[i][cat] = AddressKeySet
              /\ \A key \in AddressKeySet :
                   (cat \o "_" \o key) \notin DOMAIN yielded[i]
                     => yielded[i][cat][key] = EmptyStr
         ELSE DOMAIN yielded[i][cat] = {}

C3_Witness ==
  \E i \in 1..Len(yielded) :
    /\ "Billing_Address" \in DOMAIN yielded[i]
    /\ "Billing_City" \notin DOMAIN yielded[i]
    /\ yielded[i]["Billing"]["City"] = EmptyStr
    /\ "Postal_City" \in DOMAIN yielded[i]
    /\ DOMAIN yielded[i]["Postal"] = {}

(* C4 as stated: when k records have been yielded, exactly floor(k/1000)
   checkpoints have been signalled. *)
C4_AsStated == savepoints = Len(yielded) \div SavepointInterval

(* C4: the checkpoint is signalled once per 1000 worksheet rows read, the
   header row and the rows skipped up to startrow included: when k >= 1
   records have been yielded, exactly floor((max(startrow,1)+k)/1000)
   checkpoints have been signalled. *)
C4_SavepointPerRowsRead ==
  /\ savepoints = row_nr \div SavepointInterval
  /\ Len(yielded) >= 1 =>
       savepoints =
         (Max(startrow, 1) + Len(yielded)) \div SavepointInterval

C4_Witness ==
  /\ startrow = 3
  /\ Len(yielded) = SavepointInterval - 3
  /\ savepoints = 1

(* v is text made of the characters of s without its leading and trailing
   space, tab, newline and carriage-return characters *)
IsStripped(s, v) ==
  /\ DOMAIN v = {"kind", "val"}
  /\ v.kind = "str"
  /\ \E a \in 1..(Len(s) + 1) : \E b \in 0..Len(s) :
       /\ v.val = SubSeq(s, a, b)
       /\ \A k \in 1..(a - 1) : s[k] \in StripChars
       /\ \A k \in (b + 1)..Len(s) : s[k] \in StripChars
       /\ a <= b => (s[a] \notin StripChars /\ s[b] \notin StripChars)

(* v is the value C5 gives for the cell *)
IsNormalized(cell, v) ==
  CASE cell.kind = "none" -> v = EmptyStr
    [] cell.kind = "str" -> IsStripped(cell.val, v)
    [] cell.kind = "unicode" -> IsStripped(encode_utf8(cell.val), v)
    [] OTHER -> v = cell

(* C5 as stated: the value for the i-th header name is the normalized i-th
   cell of the row. *)
C5_AsStated ==
  \A i \in 1..Len(yielded) :
    \A j \in 1..Len(headers) :
      IsNormalized(source_row(i)[j], yielded[i][headers[j]])

(* C5: an absent cell becomes the empty text, a text cell loses its leading
   and trailing space, tab, newline and carriage-return characters, a
   non-text cell is passed through unchanged; the value for a header name
   other than Physical, Postal and Billing is the normalized cell of the last
   column bearing that name. *)
C5_CellNormalization ==
  \A i \in 1..Len(yielded) :
    \A j \in 1..Len(headers) :
      headers[j] \notin AddTypeSet =>
        LET last == CHOOSE k \in 1..Len(headers) :
                      /\ headers[k] = headers[j]
                      /\ \A m \in 1..Len(headers) :
                           headers[m] = headers[j] => m <= k
        IN  IsNormalized(source_row(i)[last], yielded[i][headers[j]])

C5_Witness ==
  \E i \in 1..Len(yielded) :
    /\ headers = <<"title", "title", "description">>
    /\ source_row(i)[1] = None
    /\ source_row(i)[2] = Unicode(<<"\t", "U+00E9", " ", "b", "\n">>)
    /\ yielded[i]["title"] = Str(<<"\\xc3", "\\xa9", " ", "b">>)
    /\ yielded[i]["description"] = Number(<<"7">>)

----------------------------------------------------------------------------
(* Properties of get_object *)

(* the objects of the requested kind that have the requested title (when one
   is given) and satisfy every extra filter *)
primary_matches ==
  { i \in 1..Len(catalog) :
      /\ catalog[i].portal_type = go_args.portal_type
      /\ ~falsy(go_args.title) => catalog[i].title = go_args.title.text
      /\ \A k \in DOMAIN go_args.kwargs :
           catalog[i][k] = go_args.kwargs[k].text }

(* C6: every entity get_object returns is of the requested kind, matches the
   requested key value (the title, or the keyword on the secondary-key retry)
   and satisfies every extra filter that was passed. *)
C6_AsStated ==
  go_result # NoObject =>
    /\ go_result.portal_type = go_args.portal_type
    /\ ~falsy(go_args.title) =>
         IF Len(go_queries) = 1
         THEN go_result.title = go_args.title.text
         ELSE go_result.getKeyword = go_args.title.text
    /\ \A k \in DOMAIN go_args.kwargs :
         go_result[k] = go_args.kwargs[k].text

(* C7: whenever a lookup get_object performs (primary or secondary) matches
   more than one entity, it returns no entity. *)
C7_AsStated ==
  \A n \in 1..Len(go_queries) :
    Len(catalog_query(catalog, go_queries[n])) > 1 => go_result = NoObject

(* C8: the secondary-key retry is kind-specific and runs only on zero primary
   matches: for AnalysisService with zero primary matches the catalog is
   queried again by keyword equal to the given title and a match is returned;
   for every other kind zero primary matches returns None with no second
   query; with one or more primary matches no keyword query is issued. *)
C8_KindSpecificRetry ==
  go_queries # <<>> =>
    IF primary_matches = {}
    THEN IF go_args.portal_type = "AnalysisService"
         THEN /\ Len(go_queries) = 2
              /\ DOMAIN go_queries[2] = {"portal_type", "getKeyword"}
              /\ go_queries[2].portal_type.text = "AnalysisService"
              /\ go_queries[2].getKeyword = go_args.title
              /\ LET found == catalog_query(catalog, go_queries[2])
                 IN  IF found = <<>>
                     THEN go_result = NoObject
                     ELSE go_result = found[1]
         ELSE /\ Len(go_queries) = 1
              /\ go_result = NoObject
    ELSE /\ Len(go_queries) = 1
         /\ \A n \in 1..Len(go_queries) :
              "getKeyword" \in DOMAIN go_queries[n] =>
                "getKeyword" \in DOMAIN go_args.kwargs

C8_Witness ==
  /\ go_args.portal_type = "AnalysisService"
  /\ go_args.title = Val("str", "Ca")
  /\ primary_matches = {}
  /\ Len(go_queries) = 2
  /\ go_result # NoObject
  /\ go_result.getKeyword = "Ca"
  /\ \E i \in 1..Len(catalog) :
       catalog[i].portal_type = "Department" /\ catalog[i].title = "Ca"

----------------------------------------------------------------------------
(* Properties of the deferred list *)

(* the tokens of the n-th comma-separated part of a cell *)
comma_at(cell, n) ==
  IF n = 0 THEN 0
  ELSE IF n > Cardinality({i \in 1..Len(cell) : cell[i] = ","})
  THEN Len(cell) + 1
  ELSE CHOOSE p \in 1..Len(cell) :
         /\ cell[p] = ","
         /\ Cardinality({i \in 1..(p - 1) : cell[i] = ","}) = n - 1

part_of(cell, n) ==
  SubSeq(cell, comma_at(cell, n - 1) + 1, comma_at(cell, n) - 1)

(* name is the text of the part without its leading and trailing blanks *)
IsNameOf(name, part) ==
  \E a \in 1..(Len(part) + 1) : \E b \in 0..Len(part) :
    /\ name = join(SubSeq(part, a, b))
    /\ \A k \in 1..(a - 1) : part[k] \in StripChars
    /\ \A k \in (b + 1)..Len(part) : part[k] \in StripChars
    /\ a <= b => (part[a] \notin StripChars /\ part[b] \notin StripChars)

(* C9: each call to defer appends exactly one link at the tail of the
   deferred list; the links already in the list keep their content and
   relative order, so the list equals the sequence of links in call order;
   the CC contacts of one Client Contacts row are queued in the order the
   names appear in the cell. *)
C9_DeferAppendsInCallOrder ==
  [][ /\ Len(deferred') >= Len(deferred)
      /\ SubSeq(deferred', 1, Len(deferred)) = deferred
      /\ Len(deferred') - Len(deferred) = Len(enqueued') - Len(enqueued)
      /\ deferred' = enqueued'
      /\ (deferred' # deferred /\ last_row'.sheet = "Client Contacts") =>
           LET cell == last_row'.row.CCContacts
               new == SubSeq(deferred', Len(deferred) + 1, Len(deferred'))
           IN  /\ Len(new) =
                    Cardinality({i \in 1..Len(cell) : cell[i] = ","}) + 1
               /\ \A n \in 1..Len(new) :
                    /\ new[n].src_field = "CCContact"
                    /\ new[n].src_obj = Len(catalog')
                    /\ IsNameOf(new[n].dest_query.getFullname.text,
                                part_of(cell, n))
    ]_vars

C9_Witness ==
  /\ last_row.sheet = "Client Contacts"
  /\ Len(deferred) = 3
  /\ deferred[1].src_field = "Department"
  /\ deferred[2].dest_query.getFullname.text = "Eve Ray"
  /\ deferred[3].dest_query.getFullname.text = "Dan Lee"
  /\ deferred[2].src_obj = deferred[3].src_obj

(* the objects that satisfy the criteria of a link *)
link_matches(link) ==
  { i \in 1..Len(catalog) :
      /\ catalog[i].portal_type = link.dest_query.portal_type.text
      /\ \A k \in DOMAIN link.dest_query \ {"portal_type"} :
           catalog[i][k] = link.dest_query[k].text }

(* the targets bound for a source object, in the order of their links *)
RECURSIVE bound_targets(_, _)
bound_targets(src, log) ==
  IF log = <<>> THEN <<>>
  ELSE LET rest == bound_targets(src, Tail(log))
       IN  IF Head(log).outcome = "bound" /\ Head(log).link.src_obj = src
           THEN <<Head(log).target>> \o rest
           ELSE rest

(* C10: once the run has completed, every link enqueued during the run has
   been drained exactly once and is either bound or reported unresolved: a
   link whose criteria identify one entity at drain time (whenever that
   entity was created) has that entity appended exactly once to the relation
   of its source; a link whose target does not exist is in the warnings and
   adds nothing to the relation; no link is dropped. *)
C10_EveryLinkBoundOrReported ==
  run_pc = "done" =>
    /\ Len(drain_log) = Len(enqueued)
    /\ \A i \in 1..Len(enqueued) :
         LET link == enqueued[i]
             entry == drain_log[i]
             reported == \E w \in 1..Len(warnings) : warnings[w] = link
         IN  /\ entry.link = link
             /\ entry.outcome \in {"bound", "unresolved"}
             /\ entry.outcome = "bound" => entry.target \in link_matches(link)
             /\ entry.outcome = "unresolved" => reported
             /\ Cardinality(link_matches(link)) = 1 =>
                  /\ entry.outcome = "bound"
                  /\ link_matches(link) = {entry.target}
             /\ link_matches(link) = {} =>
                  /\ entry.outcome = "unresolved"
                  /\ reported
    /\ Len(warnings) =
         Cardinality({i \in 1..Len(drain_log) :
                        drain_log[i].outcome = "unresolved"})
    /\ \A src \in 1..Len(catalog) :
         relations[src] = bound_targets(src, drain_log)

C10_Witness ==
  /\ run_pc = "done"
  /\ \E i \in 1..Len(enqueued) :
       /\ drain_log[i].outcome = "bound"
       /\ drain_log[i].target > enqueued[i].src_obj
       /\ relations[enqueued[i].src_obj] # <<>>
  /\ \E j \in 1..Len(enqueued) :
       /\ drain_log[j].outcome = "unresolved"
       /\ link_matches(enqueued[j]) = {}
       /\ relations[enqueued[j].src_obj] = <<>>

----------------------------------------------------------------------------
(* read_file: the order of the candidates, and the missing file *)

(* the extensions in the order the candidates are tried *)
ExtOrder == <<"pdf", "jpg", "jpeg", "png", "gif", "ods", "odt", "xlsx", "doc",
              "docx", "xls", "csv", "txt",
              "PDF", "JPG", "JPEG", "PNG", "GIF", "ODS", "ODT", "XLSX", "DOC",
              "DOCX", "XLS", "CSV", "TXT">>

(* the candidates of the last call that exist, by position in ExtOrder *)
existing_candidates ==
  {i \in 1..Len(ExtOrder) : (rf_path \o "." \o ExtOrder[i]) \in files}

(* C14: read_file(path) returns the contents of the file at exactly path when
   it exists (an exact match wins over every extension candidate); otherwise
   it returns the contents of the first existing path.ext, the extensions
   tried in the order pdf, jpg, jpeg, png, gif, ods, odt, xlsx, doc, docx,
   xls, csv, txt and then the same thirteen upper-cased; 'cert' with only
   'cert.PDF' present succeeds *)
C14_CandidateOrder ==
  rf_path # "" =>
    /\ rf_path \in files => rf_result = [raised |-> "", data |-> rf_path]
    /\ (rf_path \notin files /\ existing_candidates # {}) =>
         \E i \in existing_candidates :
           /\ \A j \in existing_candidates : i <= j
           /\ rf_result = [raised |-> "",
                           data |-> rf_path \o "." \o ExtOrder[i]]
    /\ (rf_path = "cert" /\ files = {"cert.PDF"}) =>
         rf_result = [raised |-> "", data |-> "cert.PDF"]

(* read_file('cert') took the upper-cased pdf candidate although later
   candidates exist as well, the exact path and the earlier ones do not *)
C14_Witness ==
  /\ rf_path = "cert"
  /\ files = {"cert.PDF", "cert.TXT", "cert.Pdf", "logo"}
  /\ rf_result = [raised |-> "", data |-> "cert.PDF"]

(* C15 as stated: when neither the exact path nor any of the 26 candidates
   exists, read_file gives its caller a result value and throws nothing *)
C15_AsStated ==
  (rf_path # "" /\ rf_path \notin files /\ existing_candidates = {}) =>
    rf_result.raised = ""

(* C15: read_file raises IOError exactly when neither the exact path nor any
   of the 26 candidates exists, and then returns nothing; in every other case
   it returns contents and raises nothing *)
C15_NotFoundRaisesIOError ==
  rf_path # "" =>
    IF rf_path \notin files /\ existing_candidates = {}
    THEN rf_result = [raised |-> "IOError", data |-> ""]
    ELSE rf_result.raised = "" /\ rf_result.data # ""

(* read_file('manual') found no file although other files exist *)
C15_Witness ==
  /\ rf_path = "manual"
  /\ files = {"cert", "logo.png"}
  /\ rf_result = [raised |-> "IOError", data |-> ""]

----------------------------------------------------------------------------
(* load_service_uncertainties: flush points and the final relation *)

(* the service a title names, by title or by keyword; 0 when none does *)
named_service(title) ==
  CASE title \in {"Calcium", "Ca"} -> 1
    [] title \in {"Magnesium", "Mg"} -> 2
    [] title \in {"Sodium", "Na"} -> 3
    [] OTHER -> 0

(* the payloads of the rows before row `upto` that name service u, in row
   order *)
payloads_for(u, upto) ==
  LET idx == SelectSeq([i \in 1..(upto - 1) |-> i],
                       LAMBDA i : named_service(Service_title(unc_rows, i)) = u)
  IN  [k \in 1..Len(idx) |-> payload(idx[k])]

(* the number of payloads the whole sheet adds *)
payloads_added ==
  Cardinality({i \in 1..unc_rows.n :
                 named_service(Service_title(unc_rows, i)) # 0})

automatic_flushes == SelectSeq(flushes, LAMBDA f : ~f.final)

(* C12 as stated: an automatic flush happens exactly when the count of
   payloads appended since the last flush reaches 500, so every automatic
   flush writes 500 payloads and N payloads cause floor(N/500) automatic
   flushes, the remainder being written by the final flush *)
C12_AsStated ==
  /\ \A i \in 1..Len(flushes) :
       ~flushes[i].final => flushes[i].payloads = FlushThreshold
  /\ SumLen(unc_bucket, DOMAIN unc_bucket) < FlushThreshold
  /\ unc_pc = "done" =>
       Len(automatic_flushes) = payloads_added \div FlushThreshold

(* C13: after the pass the uncertainties of every service are the value before
   the pass followed by the payloads of the rows that resolved to it, in row
   order and once each, and nothing stays in the bucket; during the pass the
   stored value followed by the bucket's list is that sequence for the rows
   read so far *)
C13_EveryPayloadOnceInRowOrder ==
  /\ unc_pc \in {"rows", "final"} =>
       \A u \in DOMAIN uncertainties :
         uncertainties[u]
           \o (IF u \in DOMAIN unc_bucket THEN unc_bucket[u] ELSE <<>>)
         = unc_before[u] \o payloads_for(u, unc_pos)
  /\ (unc_pc = "done" /\ unc_rows.layout # "none") =>
       \A u \in DOMAIN uncertainties :
         uncertainties[u] = unc_before[u] \o payloads_for(u, unc_rows.n + 1)

(* a long sheet with unresolved rows has been loaded onto services of which
   one held an uncertainty before: flushes happened inside the loop *)
C13_Witness ==
  /\ unc_pc = "done"
  /\ unc_rows = [n |-> UncRows, layout |-> "gaps"]
  /\ unc_before[1] # <<>>
  /\ automatic_flushes # <<>>
  /\ Len(logger) > 0
  /\ Len(uncertainties[1]) > 1
  /\ Len(uncertainties[2]) > 1

----------------------------------------------------------------------------
(* The first pass: drivers only append to the deferred list *)

(* a step of a driver's loop *)
driver_step == run_pc = "import" /\ sheet_pos' # sheet_pos

(* C11: during the first pass a driver step only appends at the tail of the
   deferred list (the list before the step is a prefix of the list after it),
   binds the relation of no link's source and does not move the drain; every link it appends has
   as source the entity the step created, so a step that creates nothing (a
   skipped record) enqueues nothing, and every link of the list has as source
   an entity a driver created *)
C11_FirstPassOnlyAppends ==
  [][ driver_step =>
        /\ Len(deferred') >= Len(deferred)
        /\ SubSeq(deferred', 1, Len(deferred)) = deferred
        /\ Len(relations') >= Len(relations)
        /\ \A i \in 1..Len(deferred') :
             relations'[deferred'[i].src_obj]
               = IF deferred'[i].src_obj <= Len(relations)
                 THEN relations[deferred'[i].src_obj] ELSE <<>>
        /\ drain_pos' = drain_pos
        /\ drain_log' = drain_log
        /\ \A i \in (Len(deferred) + 1)..Len(deferred') :
             deferred'[i].src_obj \in (Len(catalog) + 1)..Len(catalog')
        /\ catalog' = catalog => deferred' = deferred
        /\ \A i \in 1..Len(deferred') :
             /\ deferred'[i].src_obj \in (Len(SetupSite) + 1)..Len(catalog')
             /\ catalog'[deferred'[i].src_obj].portal_type
                  \in {"LabContact", "Contact", "Calculation"}
    ]_vars

(* the Calculations driver has read three rows, one of them without a title:
   two calculations exist and five links are waiting, nothing is bound *)
C11_Witness ==
  /\ run_pc = "import"
  /\ cur_sheet.name = "Calculations"
  /\ sheet_pos = 3
  /\ cur_sheet.rows[2].title = ""
  /\ Len(catalog) = Len(SetupSite) + 2
  /\ Len(deferred) = 5
  /\ deferred[5].src_obj = Len(catalog)
  /\ \A i \in 1..Len(relations) : relations[i] = <<>>

----------------------------------------------------------------------------
(* Drivers attaching files: a missing file does not cost the entity *)

AssetSheets == {"Instruments", "Methods", "Instrument Certifications"}

(* no file of the dataset answers to the name *)
missing(name) ==
  /\ name \notin files
  /\ \A i \in 1..Len(ExtOrder) : (name \o "." \o ExtOrder[i]) \notin files

(* the file fields a row of the sheet names, in the order the driver sets
   them *)
assets_of(row) ==
  CASE cur_sheet.name = "Instruments" ->
         <<[field |-> "Photo", name |-> row.Photo],
           [field |-> "InstallationCertificate",
            name |-> row.InstalationCertificate]>>
    [] cur_sheet.name = "Methods" ->
         <<[field |-> "MethodDocument", name |-> row.MethodDocument]>>
    [] OTHER -> <<[field |-> "Document", name |-> row.report]>>

(* the row passes the validation of its driver *)
valid_asset_row(row) ==
  CASE cur_sheet.name = "Instruments" -> TRUE
    [] cur_sheet.name = "Methods" -> row.title # ""
    [] OTHER ->
         /\ row.title # ""
         /\ \E i \in 1..Len(SetupSite) :
              /\ SetupSite[i].portal_type = "Instrument"
              /\ SetupSite[i].title = row.instrument

(* the rows read so far that pass validation *)
valid_rows_read ==
  SelectSeq(SubSeq(cur_sheet.rows, 1, sheet_pos), valid_asset_row)

(* the names of the missing files of the rows, in row and field order *)
RECURSIVE missing_names(_)
missing_names(rows) ==
  IF rows = <<>> THEN <<>>
  ELSE LET named == SelectSeq(assets_of(Head(rows)),
                              LAMBDA a : a.name # "" /\ missing(a.name))
       IN  [i \in 1..Len(named) |-> named[i].name] \o missing_names(Tail(rows))

file_warnings == SelectSeq(logger, LAMBDA m : m.text = "File not found")

(* C16: in Instruments, Methods and Instrument_Certifications a file that
   read_file does not find never costs the entity: after any number of rows
   the entities created are exactly those of the valid rows read, in row
   order (so the rows after a missing file are processed and the run is not
   aborted), each named file that exists is attached and each that is missing
   is left unset, with one warning logged per missing file *)
C16_MissingAssetKeepsEntity ==
  cur_sheet.name \in AssetSheets =>
    /\ run_pc # "aborted"
    /\ Len(catalog) = Len(SetupSite) + Len(valid_rows_read)
    /\ \A k \in 1..Len(valid_rows_read) :
         LET uid == Len(SetupSite) + k
             assets == assets_of(valid_rows_read[k])
         IN  /\ catalog[uid].title = valid_rows_read[k].title
             /\ \A i \in 1..Len(assets) :
                  (\E a \in attached : a.uid = uid /\ a.field = assets[i].field)
                    <=> (assets[i].name # "" /\ ~missing(assets[i].name))
    /\ [i \in 1..Len(file_warnings) |-> file_warnings[i].about]
         = missing_names(valid_rows_read)
    /\ Len(file_warnings) = Len(logger)

(* an instrument whose certificate file is missing was created without it and
   a warning was logged; the instrument of the next row was created with both
   its files *)
C16_Witness ==
  /\ cur_sheet.name = "Instruments"
  /\ sheet_pos = 2
  /\ cur_sheet.rows[1].title = "Oven"
  /\ cur_sheet.rows[2].title = "Scale"
  /\ files = {"cert.PDF", "logo"}
  /\ catalog[Len(SetupSite) + 1].title = "Oven"
  /\ catalog[Len(SetupSite) + 2].title = "Scale"
  /\ Len(file_warnings) = 1
  /\ attached = {[uid |-> Len(SetupSite) + 2, field |-> "Photo",
                  data |-> "logo"],
                 [uid |-> Len(SetupSite) + 2,
                  field |-> "InstallationCertificate", data |-> "cert.PDF"]}

----------------------------------------------------------------------------
(* Drivers that raise on a record lacking a required field *)

FatalSheets == {"Invoice Batches", "Clients"}

(* the record lacks a field its driver requires *)
required_missing(row) ==
  IF cur_sheet.name = "Invoice Batches"
  THEN row.title = "" \/ row.start = "" \/ row.end = ""
  ELSE row.Name = "" \/ row.ClientID = ""

(* the index of the first row lacking a required field, 0 when there is none *)
first_bad ==
  LET bad == {i \in 1..Len(cur_sheet.rows) : required_missing(cur_sheet.rows[i])}
  IN  IF bad = {} THEN 0 ELSE CHOOSE i \in bad : \A j \in bad : i <= j

(* C17: Invoice_Batches.Import (and Clients.Import likewise) raises at the
   first row lacking a required field: the run is aborted exactly when that
   row has been read, no row after it is ever read, the drain does not start,
   and the entities created from the rows before it stay in place *)
C17_RaisesAtFirstBadRow ==
  cur_sheet.name \in FatalSheets =>
    /\ first_bad = 0 => run_pc # "aborted"
    /\ first_bad # 0 =>
         /\ sheet_pos <= first_bad
         /\ run_pc = "aborted" <=> sheet_pos = first_bad
    /\ run_pc = "aborted" => drain_pos = 0 /\ drain_log = <<>>
    /\ \A i \in 1..sheet_pos :
         ~required_missing(cur_sheet.rows[i]) =>
           /\ Len(catalog) >= Len(SetupSite) + i
           /\ catalog[Len(SetupSite) + i].portal_type
                = (IF cur_sheet.name = "Clients" THEN "Client"
                   ELSE "InvoiceBatch")
           /\ catalog[Len(SetupSite) + i].title
                = (IF cur_sheet.name = "Clients" THEN cur_sheet.rows[i].Name
                   ELSE cur_sheet.rows[i].title)

(* the second row of an Invoice Batches sheet has no start date: the run is
   aborted with the batch of the first row in place and the third row unread *)
C17_Witness ==
  /\ cur_sheet.name = "Invoice Batches"
  /\ Len(cur_sheet.rows) = 3
  /\ cur_sheet.rows[1].title = "Q1"
  /\ cur_sheet.rows[2].start = ""
  /\ ~required_missing(cur_sheet.rows[3])
  /\ run_pc = "aborted"
  /\ sheet_pos = 2
  /\ catalog[Len(SetupSite) + 1].title = "Q1"

----------------------------------------------------------------------------
(* Drivers that skip a record lacking its title *)

TitledSheets == {"Sub Groups", "Lab Products", "Manufacturers",
                 "Analysis Categories"}

(* the record passes the validation of its driver *)
passes_validation(row) ==
  IF cur_sheet.name = "Analysis Categories"
  THEN /\ row.title # ""
       /\ \E i \in 1..Len(SetupSite) :
            /\ SetupSite[i].portal_type = "Department"
            /\ SetupSite[i].title = row.Department_title
  ELSE row.title # ""

rows_read == SubSeq(cur_sheet.rows, 1, sheet_pos)

(* C18 as stated: in Sub_Groups, Lab_Products, Manufacturers and
   Analysis_Categories a record missing its required field creates nothing,
   the skip is logged, and the following rows are processed: the run is not
   aborted, the entities created are as many as the rows read that pass
   validation, and the log has one entry per row read that fails it *)
C18_AsStated ==
  cur_sheet.name \in TitledSheets =>
    /\ run_pc # "aborted"
    /\ Len(catalog) - Len(SetupSite)
         = Len(SelectSeq(rows_read, passes_validation))
    /\ Len(logger)
         = Len(SelectSeq(rows_read, LAMBDA r : ~passes_validation(r)))

----------------------------------------------------------------------------
(* Lab_Contacts: a username is used by one lab contact at most *)

(* the row's Username is the username of a lab contact of the catalog *)
username_in_use(row) ==
  /\ row.Username # ""
  /\ \E i \in 1..Len(catalog) :
       /\ catalog[i].portal_type = "LabContact"
       /\ catalog[i].getUsername = row.Username

(* the step creates no contact, enqueues no link and registers no user, logs
   an error naming the username, and leaves the loop running *)
omitted_with_error(row) ==
  /\ catalog' = catalog
  /\ deferred' = deferred
  /\ members' = members
  /\ Len(logger') = Len(logger) + 1
  /\ logger'[Len(logger')].level = "error"
  /\ logger'[Len(logger')].about = row.Username
  /\ run_pc' = "import"
  /\ sheet_pos' = sheet_pos + 1

(* no two lab contacts share a non-empty username *)
usernames_unique(cat) ==
  \A i, j \in 1..Len(cat) :
    ( /\ cat[i].portal_type = "LabContact"
      /\ cat[j].portal_type = "LabContact"
      /\ cat[i].getUsername # ""
      /\ cat[i].getUsername = cat[j].getUsername ) => i = j

(* C19 as stated: every row whose non-empty Username is already used by a lab
   contact creates nothing, enqueues nothing, registers nobody and has an
   error naming the username logged *)
C19_AsStated ==
  [][ (cur_sheet.name = "Lab Contacts" /\ driver_step /\ username_in_use(this_row))
        => omitted_with_error(this_row) ]_vars

(* C19: a row with a Firstname whose non-empty Username is already used by a
   lab contact (one that existed before or one created by an earlier row)
   creates no contact, enqueues no link, registers no user and has an error
   naming the username logged, and the next row is read; a row without a
   Firstname is skipped before the username is looked at and nothing is
   logged for it; no two lab contacts ever share a non-empty username *)
C19_DuplicateUsernameOmitted ==
  [][ (cur_sheet.name = "Lab Contacts" /\ driver_step) =>
        /\ (this_row.Firstname # "" /\ username_in_use(this_row))
             => omitted_with_error(this_row)
        /\ this_row.Firstname = "" =>
             /\ catalog' = catalog
             /\ deferred' = deferred
             /\ members' = members
             /\ logger' = logger
        /\ usernames_unique(catalog')
    ]_vars

(* the second row repeated the username of the contact the first row created
   and was omitted with an error; the third row was read and created its
   contact *)
C19_Witness ==
  /\ cur_sheet.name = "Lab Contacts"
  /\ sheet_pos = 3
  /\ cur_sheet.rows[1].Firstname = "Ann"
  /\ cur_sheet.rows[2].Firstname = "Cy"
  /\ cur_sheet.rows[3].Firstname = "Bob"
  /\ Len(catalog) = Len(SetupSite) + 2
  /\ catalog[Len(SetupSite) + 1].getUsername = "ann"
  /\ catalog[Len(SetupSite) + 2].getFullname = "Bob"
  /\ \E i \in 1..Len(logger) :
       /\ logger[i].level = "error"
       /\ logger[i].text = "username already exists"
       /\ logger[i].about = "ann"
  /\ Len(deferred) = 2

----------------------------------------------------------------------------
(* load_result_options: the rows after an unresolved service *)

(* the result options of the rows that name service u, in row order *)
options_for(u) ==
  LET named == SelectSeq(cur_sheet.rows,
                 LAMBDA r : \/ SetupSite[u].title = r.Service_title
                            \/ SetupSite[u].getKeyword = r.Service_title)
  IN  [i \in 1..Len(named) |-> [ResultValue |-> named[i].ResultValue]]

(* C20 as stated: a row whose service cannot be resolved affects only that
   row: once the sheet has been read every service holds the result options
   of all the rows that resolve to it, in row order *)
C20_AsStated ==
  ( /\ cur_sheet.name = "AnalysisService ResultOptions"
    /\ sheet_pos = Len(cur_sheet.rows) ) =>
    \A u \in 1..Len(SetupSite) :
      SetupSite[u].portal_type = "AnalysisService" =>
        result_options[u] = options_for(u)

----------------------------------------------------------------------------
(* The deferred list: links enqueued twice *)

(* C25 as stated: no two links of the deferred list have the same source,
   relation name and target criteria; Calculations.Import enqueues one
   DependentServices link per distinct keyword of the Formula *)
C25_AsStated ==
  \A i, j \in 1..Len(deferred) :
    ( /\ deferred[i].src_obj = deferred[j].src_obj
      /\ deferred[i].src_field = deferred[j].src_field
      /\ deferred[i].dest_query = deferred[j].dest_query ) => i = j

----------------------------------------------------------------------------
(* Clients and Invoice_Batches: objects and validated rows *)

(* C30 as stated: at every point of Clients.Import and Invoice_Batches.Import,
   the moment the exception is raised included, the objects the run has
   created are as many as the rows read that passed validation *)
C30_AsStated ==
  cur_sheet.name \in FatalSheets =>
    Len(catalog) - Len(SetupSite)
      = Len(SelectSeq(rows_read, LAMBDA r : ~required_missing(r)))

----------------------------------------------------------------------------
(* Lab_Contacts: the row number of the log messages *)

(* get_rows(3) takes row 1 as the column names, passes over rows 2 and 3 and
   yields every following row: the k-th record of the sheet is row 3 + k of
   the worksheet *)
worksheet_row(k) == 3 + k

(* C23 as stated: the row number of every message Lab_Contacts.Import logs is
   the 1-based worksheet row of the record that caused the message *)
C23_AsStated ==
  [][ (cur_sheet.name = "Lab Contacts" /\ driver_step) =>
        \A i \in (Len(logger) + 1)..Len(logger') :
          "row" \in DOMAIN logger'[i] =>
            logger'[i].row = worksheet_row(sheet_pos + 1) ]_vars

----------------------------------------------------------------------------
(* to_int and to_float: a number for every value *)

(* C22 as stated: to_int and to_float return a number for every kind of cell
   value and every default, and never raise *)
C22_AsStated ==
  conv_args.fn \in {"to_int", "to_float"} => conv_result.raised = ""

----------------------------------------------------------------------------
(* __call__ and the exceptions of Import *)

(* C24 as stated: an IOError raised while row i is processed is not
   propagated by __call__ and the rows after i are still imported; any other
   exception leaves __call__; without the sheet Import is not invoked *)
C24_AsStated ==
  /\ (run_pc = "done" /\ invoked = 1) =>
       \A i \in 1..Len(cur_sheet.rows) :
         cur_sheet.rows[i] = "ok" => i <= sheet_pos
  /\ run_pc = "aborted" => cur_sheet.rows[sheet_pos + 1] = "Exception"
  /\ (run_pc # "call" /\ sheetname \notin DOMAIN workbook) => invoked = 0

(* C24: __call__ catches an IOError that leaves Import, logs one warning
   naming the sheet and returns, and the row that raised and every row after
   it are not imported; an exception of another kind leaves __call__; when
   the workbook has no sheet of the driver's name, Import is not invoked and
   'No records found' is logged *)
C24_IOErrorCaughtEndsTheSheet ==
  /\ \A i \in 1..sheet_pos : cur_sheet.rows[i] = "ok"
  /\ imported = sheet_pos
  /\ (run_pc = "done" /\ invoked = 1) =>
       \/ sheet_pos = Len(cur_sheet.rows)
       \/ /\ cur_sheet.rows[sheet_pos + 1] = "IOError"
          /\ logger[Len(logger)] =
               Logged("warning", "Error while loading attached file",
                      sheetname)
  /\ run_pc = "aborted" =>
       /\ cur_sheet.rows[sheet_pos + 1] = "Exception"
       /\ logger = <<Logged("info", "Loading", sheetname)>>
  /\ (run_pc # "call" /\ sheetname \notin DOMAIN workbook) =>
       /\ invoked = 0
       /\ run_pc = "done"
       /\ cur_sheet = NoSheet
       /\ logger = <<Logged("info", "No records found", sheetname)>>

(* the first row was imported, the second raised IOError, __call__ returned
   and the third row, which would have completed, was never read *)
C24_Witness ==
  /\ run_pc = "done"
  /\ invoked = 1
  /\ cur_sheet.rows = <<"ok", "IOError", "ok">>
  /\ sheet_pos = 1
  /\ imported = 1
  /\ Len(logger) = 2

----------------------------------------------------------------------------
(* Sample_Point_Sample_Types: what the relation holds *)

(* C28 as stated: the SampleTypes of every sample point are resolved
   SampleType objects, never None, each at most once; a row of an already
   linked pair and a row whose sample point does not resolve change
   nothing *)
C28_AsStated ==
  cur_sheet.name = "Sample Point Sample Types" =>
    \A p \in 1..Len(catalog) :
      catalog[p].portal_type = "SamplePoint" =>
        /\ \A i \in 1..Len(relations[p]) :
             /\ relations[p][i] \in 1..Len(catalog)
             /\ catalog[relations[p][i]].portal_type = "SampleType"
        /\ \A i, j \in 1..Len(relations[p]) :
             relations[p][i] = relations[p][j] => i = j

----------------------------------------------------------------------------
(* Sample_Templates: the folder of each template *)

(* C26 as stated: a template is created in the lab folder when its
   Client_title is empty or 'lab', and otherwise never in the folder of a
   client other than the one its own row names *)
C26_AsStated ==
  [][ (cur_sheet.name = "Sample Templates" /\ driver_step
         /\ this_row.title # "") =>
        /\ Len(placed') = Len(placed) + 1
        /\ LET into == placed'[Len(placed')].folder
           IN  /\ this_row.Client_title \in {"", "lab"} =>
                    into = sampletemplates
               /\ into # sampletemplates =>
                    catalog[into].getName = this_row.Client_title ]_vars

----------------------------------------------------------------------------
(* Worksheet template layouts: the references of an entry *)

(* the entry the last step appended *)
last_entry ==
  LET entries == wst_layouts'[this_row.WorksheetTemplate_title]
  IN  entries[Len(entries)]

(* the UID a reference cell stands for: the cell itself when it is a UID,
   the UID of the active reference definition of that title otherwise *)
named_definition(ref) ==
  IF is_uid(ref) THEN Some(ref)
  ELSE LET hits == { i \in 1..Len(catalog) :
                       /\ catalog[i].portal_type = "ReferenceDefinition"
                       /\ catalog[i].is_active = "True"
                       /\ catalog[i].title = join(ref) }
       IN  IF hits = {} THEN Nothing
           ELSE Some(uid_text(CHOOSE i \in hits : TRUE))

(* C27 as stated: a control row whose control_ref is a UID or names an active
   reference definition gets control_ref = [UID] and reference_proxy = UID; a
   blank row gets blank_ref = [UID]; dup and dup_proxy are set for duplicate
   rows only *)
C27_AsStated ==
  [][ (cur_sheet.name = "Worksheet Template Layouts" /\ driver_step) =>
        /\ (/\ this_row.type \in {"c", "Control"}
            /\ named_definition(this_row.control_ref) # Nothing) =>
             /\ last_entry.control_ref = named_definition(this_row.control_ref)
             /\ last_entry.reference_proxy
                  = named_definition(this_row.control_ref)
        /\ (/\ this_row.type \in {"b", "Blank"}
            /\ named_definition(this_row.blank_ref) # Nothing) =>
             last_entry.blank_ref = named_definition(this_row.blank_ref)
        /\ this_row.type \notin {"d", "Duplicate"} =>
             /\ last_entry.dup = Nothing
             /\ last_entry.dup_proxy = Nothing ]_vars

----------------------------------------------------------------------------
(* Analysis_Specifications: a service that does not resolve *)

(* the row names a service no AnalysisService has as title or as keyword *)
service_unresolved(row) ==
  \A i \in 1..Len(catalog) :
    catalog[i].portal_type = "AnalysisService" =>
      catalog[i].title # row.service /\ catalog[i].getKeyword # row.service

(* C21 as stated: a titled row of Analysis_Specifications whose service
   resolves neither by title nor by keyword is absorbed: no exception leaves
   Import, its range is left out of the bucket and the condition is logged,
   so that the specifications of the other rows are still created *)
C21_AsStated ==
  [][ (/\ cur_sheet.name = "Analysis Specifications"
       /\ driver_step
       /\ this_row.Title # ""
       /\ service_unresolved(this_row)) =>
        /\ run_pc' = "import"
        /\ spec_bucket' = spec_bucket
        /\ Len(logger') = Len(logger) + 1 ]_vars

----------------------------------------------------------------------------
(* The second passes: a binding is set once *)

(* a step of one of the two passes *)
pass_step == run_pc = "import" /\ other_pos' # other_pos

(* the departments and the methods *)
bound_once(u) == catalog[u].portal_type \in {"Department", "Method"}

(* C29: the manager of a department and the calculation of a method, once
   set, are changed by no step of the run; a row of the pass of Lab_Contacts
   sets a manager only for the department of its title, when it has none,
   to the first lab contact with the row's LabContact_Username; a row of the
   pass of Calculations sets a calculation only for the method of its title,
   when it has none, to the calculation of the row's Calculation_title *)
C29_PassesNeverOverwrite ==
  [][ \A u \in 1..Len(relations) :
        bound_once(u) =>
          /\ relations[u] # <<>> => relations'[u] = relations[u]
          /\ relations'[u] # relations[u] =>
               /\ pass_step
               /\ catalog[u].title = other_row.title
               /\ Len(relations'[u]) = 1
               /\ IF cur_sheet.name = "Lab Contacts"
                  THEN /\ catalog[u].portal_type = "Department"
                       /\ other_row.LabContact_Username # ""
                       /\ catalog[relations'[u][1]].portal_type = "LabContact"
                       /\ catalog[relations'[u][1]].getUsername
                            = other_row.LabContact_Username
                  ELSE /\ catalog[u].portal_type = "Method"
                       /\ catalog[relations'[u][1]].portal_type = "Calculation"
                       /\ catalog[relations'[u][1]].title
                            = other_row.Calculation_title ]_vars

(* department Chem had no manager, the first row of the pass made the old
   hand its manager, and the second row, naming the contact the loop had
   created, left it *)
C29_Witness ==
  /\ cur_sheet.name = "Lab Contacts"
  /\ Len(catalog) = Len(SetupSite) + 1
  /\ catalog[Len(catalog)].getUsername = "ann"
  /\ other_pos = 2
  /\ other_sheet.rows[1] = [title |-> "Chem", LabContact_Username |-> "old"]
  /\ other_sheet.rows[2] = [title |-> "Chem", LabContact_Username |-> "ann"]
  /\ relations[1] = <<6>>

====
